---- MODULE Spec2Model ----
(***************************************************************************)
(* Verification model of the maze core of the repository: tiles            *)
(* (modelo/tile.py), the grid (modelo/mapa.py), the maze generator         *)
(* (logica/generador_mapa.py) and the enemy state machine                  *)
(* (modelo/enemigo.py).                                                    *)
(*                                                                         *)
(* Positions are <<fila, columna>>, 0-based as in the source.  A grid is   *)
(* a record [ancho, alto, casillas, posicion_inicio, posiciones_salida]    *)
(* whose casillas is a function fila -> columna -> tile.  Time is counted  *)
(* in half seconds, so that every timer of the source is an integer.       *)
(*                                                                         *)
(* The specifications share the variables:                                 *)
(*   SpecMapa      queries on a constructed grid                           *)
(*   SpecGen       one call of GeneradorMapa.generar_mapa                  *)
(*   SpecEnemigo   one enemy driven by actualizar / matar                  *)
(*   SpecCamino    one path search of the enemy                            *)
(*   SpecConducta  an ACTIVO enemy driven by actualizar with a player      *)
(*   SpecTrampas   a GestorTrampas (modelo/trampa.py) and its callers      *)
(*   SpecEscapa    the trap charges of GameModeEscapa                      *)
(*                 (modos/modo_escapa.py)                                  *)
(*   SpecJugador   a player (modelo/jugador.py) moved through Jugador or   *)
(*                 the mover_jugador of a game mode                        *)
(*   SpecConstruir one call of Mapa(...) and queries on what it built      *)
(*   SpecPartida   the gameplay operations on a built grid                 *)
(*   SpecSalidas   the exit positions drawn by generar_mapa                *)
(*   SpecVariacion the terrain variation of a Hunter grid                  *)
(*   SpecModoEscapa a whole game of GameModeEscapa                         *)
(*   SpecModoCazador a whole game of GameModeCazador                       *)
(*                 (modos/modo_cazador.py)                                 *)
(*   SpecModos     a game of either controller                             *)
(***************************************************************************)
EXTENDS Integers, Sequences, FiniteSets, TLC

VARIABLES
    mapa,       \* the Mapa in use (a grid record), or Ninguno
    consulta,   \* SpecMapa: the last query made on mapa
    resultado,  \* SpecMapa: what that query returned
    gen,        \* SpecGen: the locals of generar_mapa and its position
    ene,        \* SpecEnemigo: the Enemigo object, its caller's arguments
    gestor,     \* the GestorTrampas object, or Ninguno
    enemigos,   \* the list of Enemigo objects given to the gestor, or Ninguno
    juego       \* the fields of the game mode object (with its player), or Ninguno

vars == <<mapa, consulta, resultado, gen, ene, gestor, enemigos, juego>>

Ninguno == "None"

SinJuego == gestor = Ninguno /\ enemigos = Ninguno /\ juego = Ninguno

\* None where a position is expected, and a result not yet returned.
NingunaPos == <<>>
Pendiente == <<>>

(***************************************************************************)
(* modelo/tile.py                                                          *)
(***************************************************************************)
Camino == "camino"
Muro == "muro"
Liana == "liana"
Tunel == "tunel"
TipoTile == {Camino, Muro, Liana, Tunel}

Escapa == "escapa"
Cazador == "cazador"
Modos == {Escapa, Cazador}
Actores == {"jugador", "enemigo"}

permite_paso_jugador(tile) ==
    CASE tile = Camino -> TRUE
      [] tile = Muro -> FALSE
      [] tile = Liana -> FALSE
      [] tile = Tunel -> TRUE

permite_paso_enemigo(tile) ==
    CASE tile = Camino -> TRUE
      [] tile = Muro -> FALSE
      [] tile = Liana -> TRUE
      [] tile = Tunel -> FALSE

(***************************************************************************)
(* modelo/mapa.py                                                          *)
(***************************************************************************)
Direcciones == << <<-1, 0>>, <<1, 0>>, <<0, -1>>, <<0, 1>> >>

Vecino(p, i) == <<p[1] + Direcciones[i][1], p[2] + Direcciones[i][2]>>

Celdas(m) == (0 .. m.alto - 1) \X (0 .. m.ancho - 1)

es_posicion_valida(m, fila, columna) ==
    0 <= fila /\ fila < m.alto /\ 0 <= columna /\ columna < m.ancho

es_transitable_por_jugador_sin_inversion(m, fila, columna, modo) ==
    IF ~es_posicion_valida(m, fila, columna) THEN FALSE
    ELSE permite_paso_jugador(m.casillas[fila][columna])

es_transitable_por_jugador(m, fila, columna, modo) ==
    IF ~es_posicion_valida(m, fila, columna) THEN FALSE
    ELSE LET tile == m.casillas[fila][columna] IN
         IF modo = Cazador /\ tile = Liana THEN TRUE
         ELSE IF modo = Cazador /\ tile = Tunel THEN FALSE
         ELSE permite_paso_jugador(tile)

es_transitable_por_enemigo(m, fila, columna, modo) ==
    IF ~es_posicion_valida(m, fila, columna) THEN FALSE
    ELSE LET tile == m.casillas[fila][columna] IN
         IF modo = Cazador /\ tile = Tunel THEN TRUE
         ELSE IF modo = Cazador /\ tile = Liana THEN FALSE
         ELSE permite_paso_enemigo(tile)

es_posicion_salida(m, fila, columna) ==
    \E i \in 1 .. Len(m.posiciones_salida) : m.posiciones_salida[i] = <<fila, columna>>

\* The loop of a BFS that only answers whether fin is found: cola is the
\* FIFO queue, visitado the marked cells, pasa the cells the walker may
\* enter.  The four neighbours are tried in the order of Direcciones.
RECURSIVE BFSExiste(_, _, _, _, _)
BFSExiste(m, pasa, cola, visitado, fin) ==
    IF cola = <<>> THEN FALSE
    ELSE LET act == Head(cola) IN
         IF act = fin THEN TRUE
         ELSE LET nuevos == SelectSeq([i \in 1 .. 4 |-> Vecino(act, i)],
                                      LAMBDA p : /\ es_posicion_valida(m, p[1], p[2])
                                                 /\ p \notin visitado
                                                 /\ p \in pasa)
              IN BFSExiste(m, pasa, Tail(cola) \o nuevos,
                           visitado \cup {nuevos[i] : i \in 1 .. Len(nuevos)}, fin)

PasaJugador(m, modo) ==
    {p \in Celdas(m) : es_transitable_por_jugador(m, p[1], p[2], modo)}

PasaEnemigo(m, modo) ==
    {p \in Celdas(m) : es_transitable_por_enemigo(m, p[1], p[2], modo)}

\* existe_camino_valido(desde, hasta) with both arguments given.  The two
\* passability tests and the BFS call es_transitable_por_jugador without a
\* mode, which is then "escapa".
existe_camino_entre_regla_cazador(m, desde, hasta) ==
    IF ~es_transitable_por_jugador(m, desde[1], desde[2], Cazador) THEN FALSE
    ELSE IF ~es_transitable_por_jugador(m, hasta[1], hasta[2], Cazador) THEN FALSE
    ELSE BFSExiste(m, PasaJugador(m, Cazador), <<desde>>, {desde}, hasta)

existe_camino_entre(m, desde, hasta) ==
    IF ~es_transitable_por_jugador(m, desde[1], desde[2], Escapa) THEN FALSE
    ELSE IF ~es_transitable_por_jugador(m, hasta[1], hasta[2], Escapa) THEN FALSE
    ELSE BFSExiste(m, PasaJugador(m, Escapa), <<desde>>, {desde}, hasta)

\* existe_camino_valido with its defaults: desde None is the start, hasta
\* None asks for a path to any exit.
existe_camino_valido(m, desde, hasta) ==
    LET d == IF desde = NingunaPos THEN m.posicion_inicio ELSE desde IN
    IF hasta = NingunaPos
    THEN \E i \in 1 .. Len(m.posiciones_salida) :
             existe_camino_entre(m, d, m.posiciones_salida[i])
    ELSE existe_camino_entre(m, d, hasta)

(***************************************************************************)
(* Reachability, stated without the BFS: the least set of cells holding    *)
(* desde and closed under a step to a 4-adjacent cell of pasa.             *)
(***************************************************************************)
Adyacentes(p, q) ==
    \/ p[1] = q[1] /\ (p[2] - q[2] = 1 \/ q[2] - p[2] = 1)
    \/ p[2] = q[2] /\ (p[1] - q[1] = 1 \/ q[1] - p[1] = 1)

RECURSIVE Cierre(_, _)
Cierre(pasa, S) ==
    LET T == S \cup {q \in pasa : \E p \in S : Adyacentes(p, q)} IN
    IF T = S THEN S ELSE Cierre(pasa, T)

Alcanzable(pasa, desde, hasta) ==
    desde \in pasa /\ hasta \in Cierre(pasa, {desde})

Pasa(m, actor, modo) ==
    IF actor = "jugador" THEN PasaJugador(m, modo) ELSE PasaEnemigo(m, modo)

(***************************************************************************)
(* SpecMapa: queries on small hand-built grids.  The grids are those of    *)
(* the shape of MapaBase in which at most MaxEspeciales cells are not      *)
(* Camino.                                                                 *)
(***************************************************************************)
MaxEspeciales == 2

MapaBase == << <<Camino, Camino, Camino>>,
               <<Camino, Camino, Camino>>,
               <<Camino, Camino, Camino>> >>

DeFilas(filas) ==
    [f \in 0 .. Len(filas) - 1 |-> [c \in 0 .. Len(filas[1]) - 1 |-> filas[f + 1][c + 1]]]

\* Mapa.__init__: the attributes as given (the arguments are valid here).
Mapa(ancho, alto, casillas, posicion_inicio, posiciones_salida) ==
    [ancho |-> ancho, alto |-> alto, casillas |-> casillas,
     posicion_inicio |-> posicion_inicio, posiciones_salida |-> posiciones_salida]

MapasPequenos ==
    LET alto == Len(MapaBase)
        ancho == Len(MapaBase[1])
        celdas == (0 .. alto - 1) \X (0 .. ancho - 1)
    IN { Mapa(ancho, alto,
              [f \in 0 .. alto - 1 |-> [c \in 0 .. ancho - 1 |->
                  IF <<f, c>> \in DOMAIN esp THEN esp[<<f, c>>] ELSE Camino]],
              <<0, 0>>, << <<alto - 1, ancho - 1>> >>) :
          esp \in UNION { [S -> {Muro, Liana, Tunel}] :
                          S \in {X \in SUBSET celdas : Cardinality(X) <= MaxEspeciales} } }

\* Positions asked about: every cell and the ring just outside the grid.
PosConsulta(m) == (-1 .. m.alto) \X (-1 .. m.ancho)

\* Ends of path queries: every cell, one position outside, and None.
ExtremosConsulta(m) == Celdas(m) \cup {<<-1, 0>>, <<m.alto, m.ancho - 1>>}

ConsultasTransitable(m) ==
    { [op |-> "transitable", pos |-> p, actor |-> actor, modo |-> modo] :
        p \in PosConsulta(m), actor \in Actores, modo \in Modos }

ConsultasCamino(m) ==
    { [op |-> "camino", desde |-> desde, hasta |-> hasta] :
        desde \in ExtremosConsulta(m) \cup {NingunaPos},
        hasta \in ExtremosConsulta(m) \cup {NingunaPos} }

InitOtrosMapa == gen = Ninguno /\ ene = Ninguno /\ SinJuego

\* A grid and one query on it; the query is then answered by the code.
InitMapa ==
    /\ mapa \in MapasPequenos
    /\ consulta \in ConsultasTransitable(mapa) \cup ConsultasCamino(mapa)
    /\ resultado = Pendiente
    /\ InitOtrosMapa

ResponderTransitable ==
    /\ resultado = Pendiente
    /\ consulta.op = "transitable"
    /\ resultado' = << IF consulta.actor = "jugador"
                       THEN es_transitable_por_jugador(mapa, consulta.pos[1],
                                                       consulta.pos[2], consulta.modo)
                       ELSE es_transitable_por_enemigo(mapa, consulta.pos[1],
                                                       consulta.pos[2], consulta.modo) >>
    /\ UNCHANGED <<mapa, consulta, gen, ene, gestor, enemigos, juego>>

ResponderCamino ==
    /\ resultado = Pendiente
    /\ consulta.op = "camino"
    /\ resultado' = <<existe_camino_valido(mapa, consulta.desde, consulta.hasta)>>
    /\ UNCHANGED <<mapa, consulta, gen, ene, gestor, enemigos, juego>>

NextMapa == ResponderTransitable \/ ResponderCamino

SpecMapa == InitMapa /\ [][NextMapa]_vars

\* The passability table of the specification: the <<tile, actor, mode>>
\* triples that pass.
TablaPaso ==
    ({Camino} \X Actores \X Modos)
    \cup { <<Liana, "enemigo", Escapa>>, <<Liana, "jugador", Cazador>>,
           <<Tunel, "jugador", Escapa>>, <<Tunel, "enemigo", Cazador>> }

\* C2: every passability answer is the table's entry for the tile under the
\* position, the actor and the mode, and is false outside the grid.
C2_TablaDePaso ==
    (consulta.op = "transitable" /\ resultado # Pendiente) =>
        resultado[1] =
            (/\ es_posicion_valida(mapa, consulta.pos[1], consulta.pos[2])
             /\ <<mapa.casillas[consulta.pos[1]][consulta.pos[2]],
                  consulta.actor, consulta.modo>> \in TablaPaso)

\* C2 witness: the player is let onto a Vine in Hunter mode.
C2_Testigo ==
    /\ consulta.op = "transitable" /\ resultado = <<TRUE>>
    /\ consulta.actor = "jugador" /\ consulta.modo = Cazador
    /\ mapa.casillas[consulta.pos[1]][consulta.pos[2]] = Liana

EsConsultaCaminoEntre ==
    /\ consulta.op = "camino" /\ resultado # Pendiente
    /\ consulta.desde # NingunaPos /\ consulta.hasta # NingunaPos

\* C3 as stated: the path query answers reachability under the passability
\* of every actor and every mode.
C3_CaminoParaTodoActorYModo ==
    EsConsultaCaminoEntre =>
        \A actor \in Actores, modo \in Modos :
            resultado[1] = Alcanzable(Pasa(mapa, actor, modo), consulta.desde, consulta.hasta)

\* C3 amended: existe_camino_valido(desde, hasta) takes no actor and no mode;
\* it is true exactly when hasta is reachable from desde through 4-adjacent
\* cells passable by the player under the Escape rule, the ends included.
C3_CaminoJugadorEscapa ==
    EsConsultaCaminoEntre =>
        resultado[1] = Alcanzable(PasaJugador(mapa, Escapa), consulta.desde, consulta.hasta)

\* C3 witness: a path found around a Vine and a Wall.
C3_Testigo ==
    /\ EsConsultaCaminoEntre /\ resultado = <<TRUE>>
    /\ consulta.desde = <<0, 0>> /\ consulta.hasta = <<0, 2>>
    /\ mapa.casillas[0][1] = Liana /\ mapa.casillas[1][1] = Muro

(***************************************************************************)
(* logica/generador_mapa.py                                                *)
(***************************************************************************)
NoCamino == <<>>

RECURSIVE Reconstruir(_, _)
Reconstruir(padre, actual) ==
    IF actual \in DOMAIN padre
    THEN Append(Reconstruir(padre, padre[actual]), actual)
    ELSE <<actual>>

RECURSIVE Emparentar(_, _, _, _)
Emparentar(padre, nuevos, act, i) ==
    IF i > Len(nuevos) THEN padre
    ELSE Emparentar(padre @@ (nuevos[i] :> act), nuevos, act, i + 1)

\* The loop of a BFS that returns the path found: padre maps a cell to the
\* cell it was first reached from, and the path is read back from destino.
RECURSIVE BFSCamino(_, _, _, _, _, _)
BFSCamino(m, pasa, cola, visitado, padre, destino) ==
    IF cola = <<>> THEN NoCamino
    ELSE LET act == Head(cola) IN
         IF act = destino THEN Reconstruir(padre, destino)
         ELSE LET nuevos == SelectSeq([i \in 1 .. 4 |-> Vecino(act, i)],
                                      LAMBDA p : /\ es_posicion_valida(m, p[1], p[2])
                                                 /\ p \notin visitado
                                                 /\ p \in pasa)
              IN BFSCamino(m, pasa, Tail(cola) \o nuevos,
                           visitado \cup {nuevos[i] : i \in 1 .. Len(nuevos)},
                           Emparentar(padre, nuevos, act, 1), destino)

SinPadre == [p \in {} |-> p]

\* The cells each of the generator's four searches may enter.
PasaGenEscapa(m) == {p \in Celdas(m) : permite_paso_jugador(m.casillas[p[1]][p[2]])}

PasaGenCazador(m) == {p \in Celdas(m) : m.casillas[p[1]][p[2]] \in {Camino, Liana}}

PasaGen(m, modo) == IF modo = Cazador THEN PasaGenCazador(m) ELSE PasaGenEscapa(m)

\* _existe_camino_valido looking at the two end cells only.
gen_existe_camino_valido_sin_busqueda(m, inicio, salida) ==
    inicio \in PasaGenEscapa(m) /\ salida \in PasaGenEscapa(m)

gen_existe_camino_valido(m, inicio, salida) ==
    IF inicio \notin PasaGenEscapa(m) THEN FALSE
    ELSE IF salida \notin PasaGenEscapa(m) THEN FALSE
    ELSE BFSExiste(m, PasaGenEscapa(m), <<inicio>>, {inicio}, salida)

gen_existe_camino_valido_cazador(m, inicio, salida) ==
    IF inicio \notin PasaGenCazador(m) THEN FALSE
    ELSE IF salida \notin PasaGenCazador(m) THEN FALSE
    ELSE BFSExiste(m, PasaGenCazador(m), <<inicio>>, {inicio}, salida)

gen_encontrar_camino_bfs(m, inicio, salida) ==
    IF inicio \notin PasaGenEscapa(m) THEN NoCamino
    ELSE IF salida \notin PasaGenEscapa(m) THEN NoCamino
    ELSE BFSCamino(m, PasaGenEscapa(m), <<inicio>>, {inicio}, SinPadre, salida)

gen_encontrar_camino_bfs_cazador(m, inicio, salida) ==
    IF inicio \notin PasaGenCazador(m) THEN NoCamino
    ELSE IF salida \notin PasaGenCazador(m) THEN NoCamino
    ELSE BFSCamino(m, PasaGenCazador(m), <<inicio>>, {inicio}, SinPadre, salida)

Rango(sec) == {sec[i] : i \in 1 .. Len(sec)}

Abs(x) == IF x < 0 THEN -x ELSE x
Max(a, b) == IF a > b THEN a ELSE b
Min(a, b) == IF a < b THEN a ELSE b
Manhattan(p, q) == Abs(p[1] - q[1]) + Abs(p[2] - q[2])

\* casillas with every cell of S replaced by tile.
Poner(casillas, S, tile) ==
    [f \in DOMAIN casillas |-> [c \in DOMAIN casillas[f] |->
        IF <<f, c>> \in S THEN tile ELSE casillas[f][c]]]

\* The checks of Mapa.__init__: construction raises ValueError unless all hold.
MapaValido(ancho, alto, casillas, posicion_inicio, posiciones_salida) ==
    /\ ancho > 0 /\ alto > 0
    /\ Cardinality(DOMAIN casillas) = alto
    /\ (Cardinality(DOMAIN casillas) > 0 => Cardinality(DOMAIN casillas[0]) = ancho)
    /\ 0 <= posicion_inicio[1] /\ posicion_inicio[1] < alto
    /\ 0 <= posicion_inicio[2] /\ posicion_inicio[2] < ancho
    /\ Len(posiciones_salida) > 0
    /\ \A i \in 1 .. Len(posiciones_salida) :
           /\ 0 <= posiciones_salida[i][1] /\ posiciones_salida[i][1] < alto
           /\ 0 <= posiciones_salida[i][2] /\ posiciones_salida[i][2] < ancho

MaxIntentosMapa == 10

PosicionInicioGen == <<1, 1>>

\* The calls of generar_mapa explored: <<ancho, alto, cantidad_salidas, modo>>,
\* cantidad_salidas -1 standing for None.
SinCantidad == -1

LlamadasGen ==
    { <<3, 3, 1, Escapa>>, <<4, 4, 1, Escapa>>,
      <<5, 5, SinCantidad, Escapa>>, <<5, 5, 1, Cazador>>,
      <<7, 5, 1, Escapa>> }

GenInicial(ancho, alto, cantidad, modo) ==
    [pc |-> "inicio", ancho |-> ancho, alto |-> alto, modo |-> modo,
     cantidad_salidas |-> cantidad, posiciones_salida |-> <<>>, intento |-> 0,
     casillas |-> <<>>, visitado |-> {}, pila |-> <<>>,
     base |-> <<>>, criticas |-> {}, via |-> "ninguna"]

Grilla(g) == [ancho |-> g.ancho, alto |-> g.alto, casillas |-> g.casillas]

\* _generar_posiciones_salida: the candidate list, the start filtered out.
Candidatos(g) ==
    SelectSeq(<< <<1, g.ancho - 2>>, <<g.alto - 2, 1>>, <<g.alto - 2, g.ancho - 2>>,
                 <<1, g.ancho \div 2>>, <<g.alto - 2, g.ancho \div 2>>,
                 <<g.alto \div 2, 1>>, <<g.alto \div 2, g.ancho - 2>> >>,
              LAMBDA c : c # PosicionInicioGen)

PrimerosBarajados_con_repeticion(cand, k) ==
    { [i \in 1 .. k |-> cand[idx[i]]] : idx \in [1 .. k -> 1 .. Len(cand)] }

\* shuffle then candidatos[:k]: any k entries of the list, in any order.
PrimerosBarajados(cand, k) ==
    { [i \in 1 .. k |-> cand[idx[i]]] :
        idx \in {f \in [1 .. k -> 1 .. Len(cand)] :
                    \A i, j \in 1 .. k : i # j => f[i] # f[j]} }

InitOtrosGen ==
    consulta = [op |-> "ninguna"] /\ resultado = Pendiente /\ ene = Ninguno /\ SinJuego

InitGen ==
    /\ \E ll \in LlamadasGen : gen = GenInicial(ll[1], ll[2], ll[3], ll[4])
    /\ mapa = Ninguno
    /\ InitOtrosGen

\* generar_mapa up to the exit positions taken from the shuffled candidates.
ElegirSalidas ==
    /\ gen.pc = "inicio"
    /\ \E cantidad \in (IF gen.cantidad_salidas = SinCantidad THEN {1, 2}
                        ELSE {gen.cantidad_salidas}) :
       \E salidas \in PrimerosBarajados(Candidatos(gen), Min(cantidad, Len(Candidatos(gen)))) :
          gen' = [gen EXCEPT !.cantidad_salidas = cantidad,
                             !.posiciones_salida = salidas,
                             !.pc = IF Len(salidas) < cantidad THEN "sortear" ELSE "laberinto"]
    /\ UNCHANGED <<mapa, consulta, resultado, ene, gestor, enemigos, juego>>

\* One turn of the while loop of _generar_posiciones_salida.
SortearSalida ==
    /\ gen.pc = "sortear"
    /\ IF gen.alto - 2 < 1 \/ gen.ancho - 2 < 1
       THEN gen' = [gen EXCEPT !.pc = "excepcion"]
       ELSE \E fila \in 1 .. gen.alto - 2, col \in 1 .. gen.ancho - 2 :
              LET pos == <<fila, col>>
                  salidas == IF pos # PosicionInicioGen /\ pos \notin Rango(gen.posiciones_salida)
                             THEN Append(gen.posiciones_salida, pos)
                             ELSE gen.posiciones_salida
              IN gen' = [gen EXCEPT !.posiciones_salida = salidas,
                                    !.pc = IF Len(salidas) < gen.cantidad_salidas
                                           THEN "sortear" ELSE "laberinto"]
    /\ UNCHANGED <<mapa, consulta, resultado, ene, gestor, enemigos, juego>>

\* _generar_laberinto_dfs up to the first call of _dfs_laberinto.
IniciarLaberinto ==
    /\ gen.pc = "laberinto"
    /\ IF gen.alto - 2 < 1 \/ gen.ancho - 2 < 1
       THEN gen' = [gen EXCEPT !.pc = "excepcion"]
       ELSE \E fila \in 1 .. gen.alto - 2, col \in 1 .. gen.ancho - 2 :
              gen' = [gen EXCEPT
                        !.casillas = Poner([f \in 0 .. gen.alto - 1 |->
                                               [c \in 0 .. gen.ancho - 1 |-> Muro]],
                                           {<<fila, col>>}, Camino),
                        !.visitado = {<<fila, col>>},
                        !.pila = << <<fila, col>> >>,
                        !.pc = "dfs"]
    /\ UNCHANGED <<mapa, consulta, resultado, ene, gestor, enemigos, juego>>

\* The neighbour test with the border let in.
SaltosDFS_hasta_el_borde(g, p) ==
    { i \in 1 .. 4 :
        LET n == <<p[1] + 2 * Direcciones[i][1], p[2] + 2 * Direcciones[i][2]>> IN
        /\ 0 <= n[1] /\ n[1] <= g.alto - 1
        /\ 0 <= n[2] /\ n[2] <= g.ancho - 1
        /\ n \notin g.visitado }

\* The cells _dfs_laberinto may recurse into from p: two steps away,
\* strictly inside the border, not visited.
SaltosDFS(g, p) ==
    { i \in 1 .. 4 :
        LET n == <<p[1] + 2 * Direcciones[i][1], p[2] + 2 * Direcciones[i][2]>> IN
        /\ 0 < n[1] /\ n[1] < g.alto - 1
        /\ 0 < n[2] /\ n[2] < g.ancho - 1
        /\ n \notin g.visitado }

\* One step of _dfs_laberinto at the innermost call: recurse into the next
\* unvisited direction of the shuffled order, or return when none is left.
PasoDFS ==
    /\ gen.pc = "dfs"
    /\ LET p == gen.pila[Len(gen.pila)] IN
       IF SaltosDFS(gen, p) = {}
       THEN gen' = [gen EXCEPT !.pila = SubSeq(gen.pila, 1, Len(gen.pila) - 1),
                               !.pc = IF Len(gen.pila) = 1 THEN "alternativos" ELSE "dfs"]
       ELSE \E i \in SaltosDFS(gen, p) :
              LET n == <<p[1] + 2 * Direcciones[i][1], p[2] + 2 * Direcciones[i][2]>> IN
              gen' = [gen EXCEPT !.casillas = Poner(gen.casillas, {Vecino(p, i), n}, Camino),
                                 !.visitado = gen.visitado \cup {n},
                                 !.pila = Append(gen.pila, n)]
    /\ UNCHANGED <<mapa, consulta, resultado, ene, gestor, enemigos, juego>>

\* _agregar_caminos_alternativos.
NumConexiones(g) == Max(2, Min(8, (g.ancho + g.alto) \div 15))

\* The number of opposite pairs (above/below, left/right) of the cell that
\* are both inside the grid and both Camino.
CaminosOpuestos(g, casillas, fila, col) ==
    Cardinality({ i \in {1, 3} :
        LET a == Vecino(<<fila, col>>, i)
            b == Vecino(<<fila, col>>, i + 1)
        IN /\ 0 <= a[1] /\ a[1] < g.alto /\ 0 <= a[2] /\ a[2] < g.ancho
           /\ 0 <= b[1] /\ b[1] < g.alto /\ 0 <= b[2] /\ b[2] < g.ancho
           /\ casillas[a[1]][a[2]] = Camino
           /\ casillas[b[1]][b[2]] = Camino })

\* One turn of the while loop on <<casillas, conexiones_creadas>> with the
\* cell drawn.
IntentoConexion(g, e, fila, col) ==
    IF e[1][fila][col] = Muro /\ CaminosOpuestos(g, e[1], fila, col) = 1
    THEN <<Poner(e[1], {<<fila, col>>}, Camino), e[2] + 1>>
    ELSE e

\* The while loop: S holds every <<casillas, conexiones_creadas>> the loop
\* may have after `intentos` turns; the result is the grids it may end with.
RECURSIVE ConCaminosAlternativos(_, _, _)
ConCaminosAlternativos(g, S, intentos) ==
    LET sigue(e) == e[2] < NumConexiones(g) /\ intentos < NumConexiones(g) * 10 IN
    IF \A e \in S : ~sigue(e)
    THEN { e[1] : e \in S }
    ELSE ConCaminosAlternativos(g,
            UNION { IF sigue(e)
                    THEN { IntentoConexion(g, e, fila, col) :
                             fila \in 2 .. g.alto - 3, col \in 2 .. g.ancho - 3 }
                    ELSE {e} : e \in S },
            intentos + 1)

\* The call of _agregar_caminos_alternativos that ends _generar_laberinto_dfs;
\* randint raises ValueError on an empty range, in the first turn of the loop.
AgregarCaminosAlternativos ==
    /\ gen.pc = "alternativos"
    /\ IF gen.alto - 3 < 2 \/ gen.ancho - 3 < 2
       THEN gen' = [gen EXCEPT !.pc = "excepcion"]
       ELSE \E casillas \in ConCaminosAlternativos(gen, {<<gen.casillas, 0>>}, 0) :
              gen' = [gen EXCEPT !.casillas = casillas, !.visitado = {}, !.pc = "verificar"]
    /\ UNCHANGED <<mapa, consulta, resultado, ene, gestor, enemigos, juego>>

\* What generar_mapa does with a rejected attempt: the next one, or the
\* fallback after the last.
Rechazado(g) ==
    [g EXCEPT !.intento = @ + 1,
              !.pc = IF g.intento + 1 < MaxIntentosMapa THEN "laberinto" ELSE "fallback"]

\* The start and the exits forced to Camino and the first connectivity check.
VerificarBase ==
    /\ gen.pc = "verificar"
    /\ LET g1 == [gen EXCEPT !.casillas = Poner(@, {PosicionInicioGen}
                                                  \cup Rango(gen.posiciones_salida), Camino)]
           caminos_validos ==
               \A i \in 1 .. Len(g1.posiciones_salida) :
                   gen_existe_camino_valido(Grilla(g1), PosicionInicioGen,
                                            g1.posiciones_salida[i])
       IN gen' = IF caminos_validos THEN [g1 EXCEPT !.pc = "variacion"] ELSE Rechazado(g1)
    /\ UNCHANGED <<mapa, consulta, resultado, ene, gestor, enemigos, juego>>

\* The cells within df, dc in -radio .. radio of centro.
Cuadro(g, centro, radio) ==
    { p \in Celdas(g) : Abs(p[1] - centro[1]) <= radio /\ Abs(p[2] - centro[2]) <= radio }

CeldasDe(g, tile) == { p \in Celdas(g) : g.casillas[p[1]][p[2]] = tile }

\* The cells of the BFS paths from the start to every exit.
CaminosCriticos(g) ==
    UNION { Rango(IF g.modo = Cazador
                  THEN gen_encontrar_camino_bfs_cazador(Grilla(g), PosicionInicioGen,
                                                        g.posiciones_salida[i])
                  ELSE gen_encontrar_camino_bfs(Grilla(g), PosicionInicioGen,
                                                g.posiciones_salida[i])) :
            i \in 1 .. Len(g.posiciones_salida) }

RadioSeguroEscapa == 3
RadioSeguroCazador == 5
RadioLianasInicio == 3
RadioEsquina == 3

\* Escape mode with the paths protected and the square around the start not.
CriticasEscapa_sin_radio(g) == CaminosCriticos(g)

\* Escape mode: the cells _agregar_variacion_terreno_segura_multiple protects.
CriticasEscapa(g) ==
    CaminosCriticos(g)
    \cup (Cuadro(g, PosicionInicioGen, RadioSeguroEscapa) \cap CeldasDe(g, Camino))

\* Hunter mode, around the start: the Camino cells protected, and those
\* among them that may be turned into Liana on the spot.
CercaInicioCazador(g) ==
    { p \in Cuadro(g, PosicionInicioGen, RadioSeguroCazador) \cap CeldasDe(g, Camino) :
        Manhattan(p, PosicionInicioGen) <= RadioSeguroCazador }

LianasInicioCazador(g) ==
    { p \in CercaInicioCazador(g) : Manhattan(p, PosicionInicioGen) <= RadioLianasInicio }

EsquinasEnemigos(g) == << <<1, 1>>, <<g.alto - 2, 1>> >>

\* Hunter mode: what the loop over the enemy corners adds to the protected
\* cells, g being the grid after the Lianas around the start.
CriticasEsquinas(g) ==
    UNION { LET camino == gen_encontrar_camino_bfs_cazador(Grilla(g), PosicionInicioGen,
                                                           EsquinasEnemigos(g)[i])
            IN IF camino # NoCamino
               THEN Rango(camino)
                    \cup (Cuadro(g, EsquinasEnemigos(g)[i], RadioEsquina)
                          \cap CeldasDe(g, Camino))
               ELSE {} :
            i \in 1 .. 2 }

\* Hunter mode with the enemy corners left out of the test.
TunelSuprimido_sin_esquinas(g, p) ==
    \/ Abs(p[2] - g.ancho \div 2) < g.ancho \div 5
    \/ Abs(p[1] - g.alto \div 2) < g.alto \div 5
    \/ Manhattan(p, PosicionInicioGen) < 6

\* Hunter mode: where a roll for Tunel gives Liana or nothing instead.
TunelSuprimido(g, p) ==
    \/ Abs(p[2] - g.ancho \div 2) < g.ancho \div 5
    \/ Abs(p[1] - g.alto \div 2) < g.alto \div 5
    \/ Min(Manhattan(p, <<1, 1>>), Manhattan(p, <<g.alto - 2, 1>>)) < 4
    \/ Manhattan(p, PosicionInicioGen) < 6

\* What the last loop may leave on an unprotected Camino cell.
TilesVariacion(g, p) ==
    IF g.modo = Cazador /\ TunelSuprimido(g, p) THEN {Camino, Liana}
    ELSE {Camino, Liana, Tunel}

\* The grids the last loop may produce from g, criticas being protected.
Variadas(g, criticas) ==
    LET libres == CeldasDe(g, Camino) \ criticas IN
    { [f \in 0 .. g.alto - 1 |-> [c \in 0 .. g.ancho - 1 |->
          IF <<f, c>> \in libres THEN asig[<<f, c>>] ELSE g.casillas[f][c]]] :
      asig \in { h \in [libres -> {Camino, Liana, Tunel}] :
                   \A p \in libres : h[p] \in TilesVariacion(g, p) } }

\* The most cells around the start that are drawn to become Liana in the
\* behaviours explored.
MaxLianasInicio == 2

\* The protected cells and the grids of _agregar_variacion_terreno_segura_multiple:
\* the set of <<casillas_criticas, casillas>> it may end with.
VariacionSegura(g) ==
    IF g.modo = Cazador
    THEN UNION { LET g1 == [g EXCEPT !.casillas = Poner(@, L, Liana)]
                     criticas == CaminosCriticos(g) \cup CercaInicioCazador(g)
                                 \cup CriticasEsquinas(g1)
                 IN { <<criticas, v>> : v \in Variadas(g1, criticas) } :
                 L \in { X \in SUBSET LianasInicioCazador(g) :
                            Cardinality(X) <= MaxLianasInicio } }
    ELSE { <<CriticasEscapa(g), v>> : v \in Variadas(g, CriticasEscapa(g)) }

\* The final connectivity check of generar_mapa, under the mode's rule.
VerificacionFinal(g) ==
    \A i \in 1 .. Len(g.posiciones_salida) :
        IF g.modo = Cazador
        THEN gen_existe_camino_valido_cazador(Grilla(g), PosicionInicioGen,
                                              g.posiciones_salida[i])
        ELSE gen_existe_camino_valido(Grilla(g), PosicionInicioGen, g.posiciones_salida[i])

\* return Mapa(...): the locals of the call are gone; base and criticas are
\* kept to state what the variation did.
Devolver(g, via) ==
    IF MapaValido(g.ancho, g.alto, g.casillas, PosicionInicioGen, g.posiciones_salida)
    THEN [g EXCEPT !.pc = "devuelto", !.via = via, !.intento = 0,
                   !.visitado = {}, !.pila = <<>>]
    ELSE [g EXCEPT !.pc = "excepcion"]

\* The terrain variation, the final check, and the return or the next attempt.
VariarYVerificar ==
    /\ gen.pc = "variacion"
    /\ \E cv \in VariacionSegura(gen) :
         LET g1 == [gen EXCEPT !.base = gen.casillas, !.criticas = cv[1], !.casillas = cv[2]]
         IN /\ gen' = IF VerificacionFinal(g1) THEN Devolver(g1, "intento") ELSE Rechazado(g1)
            /\ mapa' = IF gen'.pc = "devuelto"
                       THEN Mapa(g1.ancho, g1.alto, g1.casillas, PosicionInicioGen,
                                 g1.posiciones_salida)
                       ELSE mapa
    /\ UNCHANGED <<consulta, resultado, ene, gestor, enemigos, juego>>

\* The checkerboard returned after the last rejected attempt.
Damero(g) ==
    Poner([f \in 0 .. g.alto - 1 |-> [c \in 0 .. g.ancho - 1 |->
              IF (f + c) % 2 = 0 THEN Camino ELSE Muro]],
          {PosicionInicioGen} \cup Rango(g.posiciones_salida), Camino)

DevolverDamero ==
    /\ gen.pc = "fallback"
    /\ LET g1 == [gen EXCEPT !.casillas = Damero(gen)] IN
       /\ gen' = Devolver(g1, "fallback")
       /\ mapa' = IF gen'.pc = "devuelto"
                  THEN Mapa(g1.ancho, g1.alto, g1.casillas, PosicionInicioGen,
                            g1.posiciones_salida)
                  ELSE mapa
    /\ UNCHANGED <<consulta, resultado, ene, gestor, enemigos, juego>>

NextGen ==
    \/ ElegirSalidas \/ SortearSalida \/ IniciarLaberinto \/ PasoDFS
    \/ AgregarCaminosAlternativos \/ VerificarBase \/ VariarYVerificar \/ DevolverDamero

SpecGen == InitGen /\ [][NextGen]_vars

(***************************************************************************)
(* Properties of generar_mapa.                                             *)
(***************************************************************************)
DevueltoPorIntento == gen.pc = "devuelto" /\ gen.via = "intento"

DevueltoPorDamero == gen.pc = "devuelto" /\ gen.via = "fallback"

SalidasAlcanzables(m, modo) ==
    \A i \in 1 .. Len(m.posiciones_salida) :
        Alcanzable(PasaJugador(m, modo), m.posicion_inicio, m.posiciones_salida[i])

\* C1: in a grid returned by an accepted attempt, every exit is reachable
\* from the start by 4-adjacent cells passable by the player under the rule
\* of the mode the grid was generated for.
C1_SalidasAlcanzables == DevueltoPorIntento => SalidasAlcanzables(mapa, gen.modo)

\* A Hunter grid returned by an attempt whose start-to-exit connection runs
\* over a Liana: cut under the Escape rule, whole under the Hunter rule.
C1_Testigo ==
    /\ DevueltoPorIntento /\ gen.modo = Cazador
    /\ \E p \in Celdas(mapa) : mapa.casillas[p[1]][p[2]] = Liana
    /\ ~SalidasAlcanzables(mapa, Escapa)

\* C4: generar_mapa never raises, whatever the dimensions and the exit count.
C4_SinExcepcion == gen.pc # "excepcion"

\* C4: at most ten attempts are made before the checkerboard is returned.
C4_DiezIntentos ==
    /\ gen.pc \in {"laberinto", "dfs", "alternativos", "verificar", "variacion"}
          => gen.intento < MaxIntentosMapa
    /\ gen.pc = "fallback" => gen.intento = MaxIntentosMapa

AlineadasConDamero(m) ==
    /\ (m.posicion_inicio[1] + m.posicion_inicio[2]) % 2 = 0
    /\ \A i \in 1 .. Len(m.posiciones_salida) :
          (m.posiciones_salida[i][1] + m.posiciones_salida[i][2]) % 2 = 0

\* C5: in the checkerboard returned after the last attempt, when the start
\* and the exits lie on cells of even row+column, every exit is reachable
\* from the start by the player.
C5_DameroConectado ==
    (DevueltoPorDamero /\ AlineadasConDamero(mapa)) => SalidasAlcanzables(mapa, gen.modo)

\* The cells the variation is to leave alone: the BFS paths from the start
\* to the exits and the Camino cells of the protected area around the start,
\* in the grid the variation receives.
CriticasDeBase ==
    LET g == [gen EXCEPT !.casillas = gen.base] IN
    CaminosCriticos(g)
    \cup (IF gen.modo = Cazador THEN CercaInicioCazador(g)
          ELSE Cuadro(g, PosicionInicioGen, RadioSeguroEscapa) \cap CeldasDe(g, Camino))

EN_SPAWN == "en_spawn"
SALIENDO_SPAWN == "saliendo_spawn"
ACTIVO == "activo"
MUERTO == "muerto"

\* tiempo_espera_spawn = 2.0
TiempoEsperaSpawn == 4

\* Enemigo.__init__; the last four fields are not attributes of the object:
\* estado_anterior is the state the latest call found, conductas counts the
\* behaviour invocations of the latest call,
\* acum_estado adds the deltas of the updates since the enemy entered
\* EN_SPAWN or was killed, acum_movimiento those of the updates in ACTIVO
\* since the last behaviour invocation.
Enemigo(fila, columna, velocidad, tiempo_respawn, en_spawn) ==
    [fila |-> fila, columna |-> columna,
     velocidad |-> velocidad, tiempo_respawn |-> tiempo_respawn,
     estado |-> IF en_spawn THEN EN_SPAWN ELSE ACTIVO,
     tiempo_restante_respawn |-> 0,
     tiempo_desde_ultimo_movimiento |-> 0,
     tiempo_entre_movimientos |-> IF velocidad > 0 THEN 2 \div velocidad ELSE 2,
     tiempo_en_spawn |-> 0,
     tiempo_espera_spawn |-> TiempoEsperaSpawn,
     conductas |-> 0, acum_estado |-> 0, acum_movimiento |-> 0,
     estado_anterior |-> IF en_spawn THEN EN_SPAWN ELSE ACTIVO]

obtener_posicion(e) == <<e.fila, e.columna>>

EnPosicion(e, p) == [e EXCEPT !.fila = p[1], !.columna = p[2]]

\* _mover through mover_arriba .. mover_derecha (i = 1 .. 4): the position
\* after the call, unchanged when the move is refused.
Mover(m, pos, i, modo) ==
    LET n == Vecino(pos, i) IN
    IF ~es_posicion_valida(m, n[1], n[2]) THEN pos
    ELSE IF ~es_transitable_por_enemigo(m, n[1], n[2], modo) THEN pos
    ELSE n

matar(e) == [e EXCEPT !.estado = MUERTO, !.tiempo_restante_respawn = e.tiempo_respawn]

esta_vivo(e) == e.estado \in {ACTIVO, EN_SPAWN, SALIENDO_SPAWN}

\* The search of the enemy run under the Escape rule whatever the mode.
ene_encontrar_camino_bfs_siempre_escapa(m, modo, inicio, destino) ==
    IF inicio = destino THEN <<inicio>>
    ELSE IF ~es_transitable_por_enemigo(m, inicio[1], inicio[2], Escapa) THEN NoCamino
    ELSE IF ~es_transitable_por_enemigo(m, destino[1], destino[2], Escapa) THEN NoCamino
    ELSE BFSCamino(m, PasaEnemigo(m, Escapa), <<inicio>>, {inicio}, SinPadre, destino)

\* _encontrar_camino_bfs_escapa (modo Escapa) and _encontrar_camino_bfs
\* (modo Cazador).
ene_encontrar_camino_bfs(m, modo, inicio, destino) ==
    IF inicio = destino THEN <<inicio>>
    ELSE IF ~es_transitable_por_enemigo(m, inicio[1], inicio[2], modo) THEN NoCamino
    ELSE IF ~es_transitable_por_enemigo(m, destino[1], destino[2], modo) THEN NoCamino
    ELSE BFSCamino(m, PasaEnemigo(m, modo), <<inicio>>, {inicio}, SinPadre, destino)

\* The direction (1 .. 4) of the step, 0 for None.
SinMovimiento == 0

\* The direction with left and right exchanged.
obtener_direccion_hacia_columnas_cambiadas(desde, hacia) ==
    LET df == hacia[1] - desde[1]
        dc == hacia[2] - desde[2]
    IN IF df < 0 THEN 1 ELSE IF df > 0 THEN 2
       ELSE IF dc < 0 THEN 4 ELSE IF dc > 0 THEN 3 ELSE SinMovimiento

obtener_direccion_hacia(desde, hacia) ==
    LET df == hacia[1] - desde[1]
        dc == hacia[2] - desde[2]
    IN IF df < 0 THEN 1 ELSE IF df > 0 THEN 2
       ELSE IF dc < 0 THEN 3 ELSE IF dc > 0 THEN 4 ELSE SinMovimiento

\* The loop of _perseguir_jugador_simple and of _buscar_salida_simple: each
\* direction is tried and undone, and the first that brings the enemy
\* strictly nearer to objetivo than every one before it is kept.
RECURSIVE MejorAcercamiento(_, _, _, _, _, _, _)
MejorAcercamiento(m, pos, objetivo, modo, i, mejor_movimiento, menor_distancia) ==
    IF i > 4 THEN mejor_movimiento
    ELSE LET n == Mover(m, pos, i, modo) IN
         IF n # pos /\ Manhattan(objetivo, n) < menor_distancia
         THEN MejorAcercamiento(m, pos, objetivo, modo, i + 1, i, Manhattan(objetivo, n))
         ELSE MejorAcercamiento(m, pos, objetivo, modo, i + 1, mejor_movimiento,
                                menor_distancia)

\* The greedy step that takes the best neighbour even when it is no nearer
\* than the cell of the enemy.
perseguir_jugador_simple_sin_umbral(m, jugador_pos, enemigo_pos) ==
    MejorAcercamiento(m, enemigo_pos, jugador_pos, Escapa, 1, SinMovimiento,
                      Manhattan(jugador_pos, enemigo_pos) + 2)

perseguir_jugador_simple(m, jugador_pos, enemigo_pos) ==
    MejorAcercamiento(m, enemigo_pos, jugador_pos, Escapa, 1, SinMovimiento,
                      Manhattan(jugador_pos, enemigo_pos))

\* _perseguir_jugador: the position of the enemy after the call.
perseguir_jugador(m, enemigo_pos, jugador_pos) ==
    LET camino == ene_encontrar_camino_bfs(m, Escapa, enemigo_pos, jugador_pos)
        mejor_movimiento ==
            IF camino # NoCamino /\ Len(camino) >= 2
            THEN obtener_direccion_hacia(enemigo_pos, camino[2])
            ELSE perseguir_jugador_simple(m, jugador_pos, enemigo_pos)
    IN IF mejor_movimiento # SinMovimiento
       THEN Mover(m, enemigo_pos, mejor_movimiento, Escapa)
       ELSE enemigo_pos

\* The loop of _buscar_salida stopping at the first exit a path reaches.
RECURSIVE CaminoMasCorto_primera_salida(_, _, _, _, _)
CaminoMasCorto_primera_salida(m, enemigo_pos, posiciones_salida, i, camino_mas_corto) ==
    IF i > Len(posiciones_salida) THEN camino_mas_corto
    ELSE LET camino == ene_encontrar_camino_bfs(m, Cazador, enemigo_pos, posiciones_salida[i])
         IN IF camino # NoCamino THEN camino
            ELSE CaminoMasCorto_primera_salida(m, enemigo_pos, posiciones_salida, i + 1,
                                               camino_mas_corto)

\* The loop of _buscar_salida over the exits: the first of the shortest
\* paths found, NoCamino when no exit is reached.
RECURSIVE CaminoMasCorto(_, _, _, _, _)
CaminoMasCorto(m, enemigo_pos, posiciones_salida, i, camino_mas_corto) ==
    IF i > Len(posiciones_salida) THEN camino_mas_corto
    ELSE LET camino == ene_encontrar_camino_bfs(m, Cazador, enemigo_pos, posiciones_salida[i])
         IN IF camino # NoCamino
               /\ (camino_mas_corto = NoCamino \/ Len(camino) < Len(camino_mas_corto))
            THEN CaminoMasCorto(m, enemigo_pos, posiciones_salida, i + 1, camino)
            ELSE CaminoMasCorto(m, enemigo_pos, posiciones_salida, i + 1, camino_mas_corto)

\* The score with the distance to the ideal step weighing as much as the
\* distance to the player.
Puntuacion_sin_prioridad(n, siguiente_paso_ideal, jugador_pos) ==
    -Manhattan(siguiente_paso_ideal, n)
    + (IF Manhattan(jugador_pos, n) > 2 THEN Manhattan(jugador_pos, n) ELSE 0)

\* puntuacion of _elegir_movimiento_evasivo, doubled to stay in the integers.
Puntuacion(n, siguiente_paso_ideal, jugador_pos) ==
    -4 * Manhattan(siguiente_paso_ideal, n)
    + (IF Manhattan(jugador_pos, n) > 2 THEN Manhattan(jugador_pos, n) ELSE 0)

\* _elegir_movimiento_evasivo: the first direction of the best score among
\* the neighbours the enemy may enter, hay telling whether one was kept.
RECURSIVE elegir_movimiento_evasivo(_, _, _, _, _, _, _, _)
elegir_movimiento_evasivo(m, siguiente_paso_ideal, jugador_pos, enemigo_pos, i, mejor_movimiento, hay, mejor_puntuacion) ==
    IF i > 4 THEN mejor_movimiento
    ELSE LET n == Vecino(enemigo_pos, i) IN
         IF /\ es_posicion_valida(m, n[1], n[2])
            /\ es_transitable_por_enemigo(m, n[1], n[2], Cazador)
            /\ (~hay \/ Puntuacion(n, siguiente_paso_ideal, jugador_pos) > mejor_puntuacion)
         THEN elegir_movimiento_evasivo(m, siguiente_paso_ideal, jugador_pos, enemigo_pos,
                                        i + 1, i, TRUE,
                                        Puntuacion(n, siguiente_paso_ideal, jugador_pos))
         ELSE elegir_movimiento_evasivo(m, siguiente_paso_ideal, jugador_pos, enemigo_pos,
                                        i + 1, mejor_movimiento, hay, mejor_puntuacion)

\* The exit nearest to the enemy by Manhattan distance, the first of them.
RECURSIVE SalidaMasCercana(_, _, _, _)
SalidaMasCercana(enemigo_pos, posiciones_salida, i, salida_mas_cercana) ==
    IF i > Len(posiciones_salida) THEN salida_mas_cercana
    ELSE IF salida_mas_cercana = NingunaPos
            \/ Manhattan(posiciones_salida[i], enemigo_pos)
                 < Manhattan(salida_mas_cercana, enemigo_pos)
         THEN SalidaMasCercana(enemigo_pos, posiciones_salida, i + 1, posiciones_salida[i])
         ELSE SalidaMasCercana(enemigo_pos, posiciones_salida, i + 1, salida_mas_cercana)

\* The greedy step to the exits that takes the best neighbour even when it
\* is no nearer than the cell of the enemy.
buscar_salida_simple_sin_umbral(m, enemigo_pos) ==
    LET salida_mas_cercana == SalidaMasCercana(enemigo_pos, m.posiciones_salida, 1, NingunaPos)
    IN IF salida_mas_cercana = NingunaPos THEN enemigo_pos
       ELSE LET mejor_movimiento ==
                    MejorAcercamiento(m, enemigo_pos, salida_mas_cercana, Cazador, 1,
                                      SinMovimiento,
                                      Manhattan(salida_mas_cercana, enemigo_pos) + 2)
            IN IF mejor_movimiento # SinMovimiento
               THEN Mover(m, enemigo_pos, mejor_movimiento, Cazador)
               ELSE enemigo_pos

\* _buscar_salida_simple: the position of the enemy after the call.
buscar_salida_simple(m, enemigo_pos) ==
    LET salida_mas_cercana == SalidaMasCercana(enemigo_pos, m.posiciones_salida, 1, NingunaPos)
    IN IF salida_mas_cercana = NingunaPos THEN enemigo_pos
       ELSE LET mejor_movimiento ==
                    MejorAcercamiento(m, enemigo_pos, salida_mas_cercana, Cazador, 1,
                                      SinMovimiento,
                                      Manhattan(salida_mas_cercana, enemigo_pos))
            IN IF mejor_movimiento # SinMovimiento
               THEN Mover(m, enemigo_pos, mejor_movimiento, Cazador)
               ELSE enemigo_pos

DistanciaEvasion == 3

\* _buscar_salida with a jugador given: the position of the enemy after the
\* call.
buscar_salida(m, enemigo_pos, jugador_pos) ==
    IF m.posiciones_salida = <<>> THEN enemigo_pos
    ELSE LET camino_mas_corto == CaminoMasCorto(m, enemigo_pos, m.posiciones_salida, 1, NoCamino)
         IN IF camino_mas_corto = NoCamino \/ Len(camino_mas_corto) < 2
            THEN buscar_salida_simple(m, enemigo_pos)
            ELSE LET siguiente_paso == camino_mas_corto[2]
                     mejor_movimiento ==
                         IF Manhattan(jugador_pos, enemigo_pos) <= DistanciaEvasion
                         THEN elegir_movimiento_evasivo(m, siguiente_paso, jugador_pos,
                                                        enemigo_pos, 1, SinMovimiento, FALSE, 0)
                         ELSE obtener_direccion_hacia(enemigo_pos, siguiente_paso)
                 IN IF mejor_movimiento # SinMovimiento
                    THEN Mover(m, enemigo_pos, mejor_movimiento, Cazador)
                    ELSE enemigo_pos

\* _respawn putting the enemy on its way out of the spawn at once.
respawn_saliendo(e, m, posicion_spawn) ==
    { [e EXCEPT !.estado = SALIENDO_SPAWN, !.tiempo_restante_respawn = 0] }

\* _respawn: the enemies it may leave.  Without a spawn the hundred draws
\* may hit any cell that es_transitable_por_enemigo accepts under its
\* default mode, or miss them all when some cell is refused; then the start
\* is taken if accepted, and otherwise the enemy is left as it is.
respawn(e, m, posicion_spawn) ==
    IF posicion_spawn # NingunaPos
    THEN { [EnPosicion(e, posicion_spawn) EXCEPT !.estado = EN_SPAWN, !.tiempo_en_spawn = 0,
                                                 !.tiempo_restante_respawn = 0] }
    ELSE LET aceptadas == { p \in Celdas(m) : es_transitable_por_enemigo(m, p[1], p[2], Escapa) }
             inicio == m.posicion_inicio
         IN { [EnPosicion(e, p) EXCEPT !.estado = ACTIVO, !.tiempo_restante_respawn = 0] :
                p \in aceptadas }
            \cup (IF aceptadas = Celdas(m) THEN {}
                  ELSE IF es_transitable_por_enemigo(m, inicio[1], inicio[2], Escapa)
                  THEN { [EnPosicion(e, inicio) EXCEPT !.estado = ACTIVO,
                                                       !.tiempo_restante_respawn = 0] }
                  ELSE {e})

\* _salir_del_spawn: the first direction whose cell es_transitable_por_enemigo
\* accepts under its default mode is taken, by a move under the default mode.
RECURSIVE salir_del_spawn(_, _, _, _)
salir_del_spawn(e, m, posicion_spawn, i) ==
    IF i > 4 THEN e
    ELSE LET n == Vecino(posicion_spawn, i) IN
         IF es_posicion_valida(m, n[1], n[2]) /\ es_transitable_por_enemigo(m, n[1], n[2], Escapa)
         THEN EnPosicion(e, Mover(m, obtener_posicion(e), i, Escapa))
         ELSE salir_del_spawn(e, m, posicion_spawn, i + 1)

\* The wait in the spawn read with > in place of >=.
EsperaCumplida_estricta(e) == e.tiempo_en_spawn > e.tiempo_espera_spawn

EsperaCumplida(e) == e.tiempo_en_spawn >= e.tiempo_espera_spawn

\* The throttle read with > in place of >=.
TocaMoverse_estricto(e) == e.tiempo_desde_ultimo_movimiento > e.tiempo_entre_movimientos

TocaMoverse(e) == e.tiempo_desde_ultimo_movimiento >= e.tiempo_entre_movimientos

\* Enemigo.actualizar: the enemies the call may leave.
actualizar(e0, m, jugador_pos, delta_tiempo, modo, posicion_spawn) ==
    LET e == [e0 EXCEPT !.conductas = 0] IN
    CASE e.estado = MUERTO ->
           LET e1 == [e EXCEPT !.tiempo_restante_respawn = @ - delta_tiempo] IN
           IF e1.tiempo_restante_respawn <= 0 THEN respawn(e1, m, posicion_spawn) ELSE {e1}
      [] e.estado = EN_SPAWN ->
           IF posicion_spawn # NingunaPos
           THEN LET e1 == [EnPosicion(e, posicion_spawn) EXCEPT !.tiempo_en_spawn = @ + delta_tiempo]
                IN IF EsperaCumplida(e1)
                   THEN { [e1 EXCEPT !.estado = SALIENDO_SPAWN, !.tiempo_en_spawn = 0] }
                   ELSE {e1}
           ELSE { [e EXCEPT !.estado = ACTIVO] }
      [] e.estado = SALIENDO_SPAWN ->
           IF posicion_spawn # NingunaPos /\ obtener_posicion(e) = posicion_spawn
           THEN { salir_del_spawn(e, m, posicion_spawn, 1) }
           ELSE { [e EXCEPT !.estado = ACTIVO] }
      [] e.estado = ACTIVO ->
           LET e1 == [e EXCEPT !.tiempo_desde_ultimo_movimiento = @ + delta_tiempo] IN
           IF TocaMoverse(e1)
           THEN { [EnPosicion(e1, IF modo = Escapa
                                  THEN perseguir_jugador(m, obtener_posicion(e1), jugador_pos)
                                  ELSE buscar_salida(m, obtener_posicion(e1), jugador_pos))
                     EXCEPT !.tiempo_desde_ultimo_movimiento = 0, !.conductas = 1] }
           ELSE {e1}

(***************************************************************************)
(* SpecEnemigo: one enemy on a hand-built grid, updated and killed by its  *)
(* caller.  consulta holds the latest call; the mode is that of the game.  *)
(***************************************************************************)
MapasEnemigo ==
    { Mapa(3, 3, DeFilas(<< <<Camino, Liana, Camino>>,
                            <<Tunel, Camino, Camino>>,
                            <<Camino, Camino, Camino>> >>), <<1, 1>>, << <<2, 2>> >>),
      Mapa(3, 3, DeFilas(<< <<Camino, Tunel, Camino>>,
                            <<Muro, Camino, Camino>>,
                            <<Camino, Camino, Liana>> >>), <<1, 1>>, << <<2, 0>>, <<0, 2>> >>) }

PosicionSpawn == <<0, 0>>

MaxDelta == 4

Deltas == 0 .. MaxDelta

Velocidades == {1, 2}

TiemposRespawn == {3}

Llamada(op, delta_tiempo, modo, posicion_spawn) ==
    [op |-> op, delta_tiempo |-> delta_tiempo, modo |-> modo,
     posicion_spawn |-> posicion_spawn]

InitOtrosEnemigo == resultado = Pendiente /\ gen = Ninguno /\ SinJuego

InitEnemigo ==
    /\ mapa \in MapasEnemigo
    /\ \E modo \in Modos, velocidad \in Velocidades, tiempo_respawn \in TiemposRespawn,
          en_spawn \in BOOLEAN :
         /\ consulta = Llamada("crear", 0, modo, NingunaPos)
         /\ \E p \in { q \in Celdas(mapa) : es_transitable_por_enemigo(mapa, q[1], q[2], modo) } :
              ene = Enemigo(p[1], p[2], velocidad, tiempo_respawn, en_spawn)
    /\ InitOtrosEnemigo

\* The sums of deltas after a call that found e and left e1.
Acumular(e, e1, delta_tiempo) ==
    [e1 EXCEPT
       !.estado_anterior = e.estado,
       !.acum_estado = IF e1.estado = e.estado /\ e.estado \in {EN_SPAWN, MUERTO}
                       THEN e.acum_estado + delta_tiempo ELSE 0,
       !.acum_movimiento = IF e.estado # ACTIVO THEN e.acum_movimiento
                           ELSE IF e1.conductas = 1 THEN 0
                           ELSE e.acum_movimiento + delta_tiempo]

Actualizar ==
    /\ \E delta_tiempo \in Deltas, posicion_spawn \in {NingunaPos, PosicionSpawn},
          jugador_pos \in { q \in Celdas(mapa) :
                              es_transitable_por_jugador(mapa, q[1], q[2], consulta.modo) } :
         /\ \E e1 \in actualizar(ene, mapa, jugador_pos, delta_tiempo, consulta.modo,
                                 posicion_spawn) :
              ene' = Acumular(ene, e1, delta_tiempo)
         /\ consulta' = Llamada("actualizar", delta_tiempo, consulta.modo, posicion_spawn)
    /\ UNCHANGED <<mapa, resultado, gen, gestor, enemigos, juego>>

Matar ==
    /\ ene' = [matar(ene) EXCEPT !.estado_anterior = ene.estado, !.conductas = 0,
                                 !.acum_estado = 0]
    /\ consulta' = Llamada("matar", 0, consulta.modo, NingunaPos)
    /\ UNCHANGED <<mapa, resultado, gen, gestor, enemigos, juego>>

NextEnemigo == Actualizar \/ Matar

SpecEnemigo == InitEnemigo /\ [][NextEnemigo]_vars

\* C7: an update with a spawn that finds the enemy EN_SPAWN leaves it
\* EN_SPAWN on the spawn cell while the deltas added up since it entered the
\* state stay below the wait of 2.0 s, and out of EN_SPAWN (SALIENDO_SPAWN or
\* ACTIVO) as soon as they reach it.
C7_EsperaEnSpawn ==
    [][ (ene.estado = EN_SPAWN /\ consulta'.op = "actualizar"
           /\ consulta'.posicion_spawn # NingunaPos) =>
        IF ene.acum_estado + consulta'.delta_tiempo < TiempoEsperaSpawn
        THEN ene'.estado = EN_SPAWN /\ obtener_posicion(ene') = consulta'.posicion_spawn
        ELSE ene'.estado \in {SALIENDO_SPAWN, ACTIVO} ]_vars

\* The wait completed by several short updates, the last of half a second.
C7_Testigo ==
    /\ consulta.op = "actualizar" /\ consulta.posicion_spawn # NingunaPos
    /\ consulta.delta_tiempo = 1
    /\ ene.estado_anterior = EN_SPAWN /\ ene.estado = SALIENDO_SPAWN
    /\ obtener_posicion(ene) = consulta.posicion_spawn

VecinosValidos(m, p, modo) ==
    { Vecino(p, i) : i \in { j \in 1 .. 4 :
        /\ es_posicion_valida(m, Vecino(p, j)[1], Vecino(p, j)[2])
        /\ es_transitable_por_enemigo(m, Vecino(p, j)[1], Vecino(p, j)[2], modo) } }

\* C8: an update that finds the enemy SALIENDO_SPAWN on its spawn cell moves
\* it to a neighbour the enemy may enter under the mode of the game when
\* there is one; an update that finds it off the spawn cell, or has no
\* spawn, makes it ACTIVO.
C8_SaleDelSpawn ==
    [][ (ene.estado = SALIENDO_SPAWN /\ consulta'.op = "actualizar") =>
        IF consulta'.posicion_spawn # NingunaPos
           /\ obtener_posicion(ene) = consulta'.posicion_spawn
        THEN VecinosValidos(mapa, obtener_posicion(ene), consulta'.modo) # {}
                => obtener_posicion(ene') \in
                       VecinosValidos(mapa, obtener_posicion(ene), consulta'.modo)
        ELSE ene'.estado = ACTIVO ]_vars

\* C9: an update that finds the enemy ACTIVO leaves its position alone
\* while the deltas of the updates in ACTIVO since the last behaviour
\* invocation stay below 1 / velocidad; when they reach it the behaviour is
\* invoked once, the timer is zero afterwards and the enemy is at most one
\* 4-adjacent step away, whatever the delta.
C9_RitmoDeMovimiento ==
    [][ (ene.estado = ACTIVO /\ consulta'.op = "actualizar") =>
        IF ene.acum_movimiento + consulta'.delta_tiempo < 2 \div ene.velocidad
        THEN obtener_posicion(ene') = obtener_posicion(ene) /\ ene'.conductas = 0
        ELSE /\ ene'.conductas = 1
             /\ ene'.tiempo_desde_ultimo_movimiento = 0
             /\ Manhattan(obtener_posicion(ene'), obtener_posicion(ene)) <= 1 ]_vars

\* A Hunter-mode update of two seconds on an enemy that moves every half
\* second: one behaviour invocation.
C9_Testigo ==
    /\ consulta.op = "actualizar" /\ consulta.modo = Cazador
    /\ consulta.delta_tiempo = MaxDelta
    /\ ene.estado_anterior = ACTIVO /\ ene.estado = ACTIVO
    /\ ene.velocidad = 2 /\ ene.conductas = 1
    /\ mapa.casillas[ene.fila][ene.columna] = Tunel

\* C10: matar leaves the enemy MUERTO with the respawn timer at
\* tiempo_respawn; an update that finds it MUERTO leaves it MUERTO where it
\* is while the deltas since the kill stay below tiempo_respawn, and then
\* puts it EN_SPAWN on the spawn cell when there is a spawn, and otherwise
\* ACTIVO on a cell the enemy may enter under the mode of the game.
C10_MuerteYReaparicion ==
    [][ /\ consulta'.op = "matar" =>
              ene'.estado = MUERTO /\ ene'.tiempo_restante_respawn = ene.tiempo_respawn
        /\ (ene.estado = MUERTO /\ consulta'.op = "actualizar") =>
              IF ene.acum_estado + consulta'.delta_tiempo < ene.tiempo_respawn
              THEN /\ ene'.estado = MUERTO /\ ~esta_vivo(ene')
                   /\ obtener_posicion(ene') = obtener_posicion(ene)
              ELSE IF consulta'.posicion_spawn # NingunaPos
              THEN /\ ene'.estado = EN_SPAWN
                   /\ obtener_posicion(ene') = consulta'.posicion_spawn
              ELSE /\ ene'.estado = ACTIVO
                   /\ es_transitable_por_enemigo(mapa, ene'.fila, ene'.columna,
                                                 consulta'.modo) ]_vars

(***************************************************************************)
(* SpecCamino: one search of the enemy for a path, on the grids of         *)
(* MapasPequenos, between any two cells or positions just outside.         *)
(***************************************************************************)
ConsultasCaminoEnemigo(m) ==
    { [op |-> "camino_enemigo", modo |-> modo, inicio |-> inicio, destino |-> destino] :
        modo \in Modos, inicio \in ExtremosConsulta(m), destino \in ExtremosConsulta(m) }

InitCamino ==
    /\ mapa \in MapasPequenos
    /\ consulta \in ConsultasCaminoEnemigo(mapa)
    /\ resultado = Pendiente
    /\ gen = Ninguno /\ ene = Ninguno /\ SinJuego

BuscarCaminoEnemigo ==
    /\ resultado = Pendiente
    /\ resultado' = <<ene_encontrar_camino_bfs(mapa, consulta.modo, consulta.inicio,
                                               consulta.destino)>>
    /\ UNCHANGED <<mapa, consulta, gen, ene, gestor, enemigos, juego>>

NextCamino == BuscarCaminoEnemigo

SpecCamino == InitCamino /\ [][NextCamino]_vars

\* The number of steps of a shortest walk from desde to hasta inside pasa,
\* -1 when there is none: S is the set of cells within n steps of desde.
RECURSIVE DistanciaDesde(_, _, _, _)
DistanciaDesde(pasa, S, hasta, n) ==
    IF hasta \in S THEN n
    ELSE LET T == S \cup {q \in pasa : \E p \in S : Adyacentes(p, q)} IN
         IF T = S THEN -1 ELSE DistanciaDesde(pasa, T, hasta, n + 1)

Distancia(pasa, desde, hasta) ==
    IF desde \notin pasa THEN -1 ELSE DistanciaDesde(pasa, {desde}, hasta, 0)

EsCaminoEntre(pasa, camino, desde, hasta) ==
    /\ Len(camino) >= 1
    /\ camino[1] = desde /\ camino[Len(camino)] = hasta
    /\ \A i \in 1 .. Len(camino) : camino[i] \in pasa
    /\ \A i \in 1 .. Len(camino) - 1 : Adyacentes(camino[i], camino[i + 1])

CaminoEnemigoCorrecto ==
    LET pasa == PasaEnemigo(mapa, consulta.modo) IN
    IF Alcanzable(pasa, consulta.inicio, consulta.destino)
    THEN /\ EsCaminoEntre(pasa, resultado[1], consulta.inicio, consulta.destino)
         /\ Len(resultado[1]) = Distancia(pasa, consulta.inicio, consulta.destino) + 1
    ELSE resultado[1] = NoCamino

\* C12 as stated: the search returns None exactly when the destination is
\* not reachable from the origin through cells the enemy may enter under the
\* mode, and otherwise a shortest path of such cells from the origin to the
\* destination.
C12_CaminoEnemigo == resultado # Pendiente => CaminoEnemigoCorrecto

\* C12 as the code has it: the same when origin and destination differ; when
\* they are equal the search returns the one-cell path without looking at
\* the cell.
C12_CaminoEnemigoDistintos ==
    resultado # Pendiente =>
        IF consulta.inicio = consulta.destino
        THEN resultado[1] = <<consulta.inicio>>
        ELSE CaminoEnemigoCorrecto

\* A Hunter search answered with a path of five cells that runs over a Tunel
\* around a Liana.
C12_Testigo ==
    /\ resultado # Pendiente /\ consulta.modo = Cazador
    /\ consulta.inicio = <<0, 0>> /\ consulta.destino = <<0, 2>>
    /\ mapa.casillas[0][1] = Liana /\ mapa.casillas[1][1] = Tunel
    /\ Len(resultado[1]) = 5

(***************************************************************************)
(* SpecConducta: an enemy built ACTIVO on a cell it may stand on, updated  *)
(* by its caller with the position of the player.  consulta holds the      *)
(* latest call and resultado the position that call found the enemy on.    *)
(***************************************************************************)
MapasConducta ==
    MapasEnemigo
    \cup { Mapa(4, 3, DeFilas(<< <<Camino, Liana, Camino, Camino>>,
                                 <<Camino, Liana, Tunel, Camino>>,
                                 <<Camino, Liana, Camino, Camino>> >>), <<1, 0>>,
                 << <<0, 3>>, <<2, 2>> >>) }

LlamadaConducta(op, jugador_pos, delta_tiempo, modo) ==
    [op |-> op, jugador_pos |-> jugador_pos, delta_tiempo |-> delta_tiempo, modo |-> modo]

InitConducta ==
    /\ mapa \in MapasConducta
    /\ \E modo \in Modos, velocidad \in Velocidades, tiempo_respawn \in TiemposRespawn :
         /\ consulta = LlamadaConducta("crear", NingunaPos, 0, modo)
         /\ \E p \in PasaEnemigo(mapa, modo) :
              ene = Enemigo(p[1], p[2], velocidad, tiempo_respawn, FALSE)
    /\ InitOtrosEnemigo

ActualizarConducta ==
    /\ \E delta_tiempo \in Deltas, jugador_pos \in PasaJugador(mapa, consulta.modo) :
         /\ \E e1 \in actualizar(ene, mapa, jugador_pos, delta_tiempo, consulta.modo,
                                 NingunaPos) :
              ene' = Acumular(ene, e1, delta_tiempo)
         /\ consulta' = LlamadaConducta("actualizar", jugador_pos, delta_tiempo, consulta.modo)
    /\ resultado' = <<obtener_posicion(ene)>>
    /\ UNCHANGED <<mapa, gen, gestor, enemigos, juego>>

NextConducta == ActualizarConducta

SpecConducta == InitConducta /\ [][NextConducta]_vars

\* An update under modo with the player on jugador_pos finds the enemy
\* ACTIVO with its time between moves used up.
TocaConducta(modo) ==
    /\ consulta'.op = "actualizar" /\ consulta'.modo = modo
    /\ ene.estado = ACTIVO
    /\ ene.acum_movimiento + consulta'.delta_tiempo >= 2 \div ene.velocidad

\* C11: in Escape mode, an update that finds the enemy ACTIVO with its time
\* between moves used up, the player on another cell and a path of cells the
\* enemy may enter from its cell to the player's, moves the enemy one step,
\* onto the second cell of the path its search returns, and the length of
\* the shortest such path to the player goes down by exactly one.
C11_PersigueUnPaso ==
    [][ LET pasa == PasaEnemigo(mapa, Escapa)
            pos == obtener_posicion(ene)
            jp == consulta'.jugador_pos
        IN (TocaConducta(Escapa) /\ jp # pos /\ Alcanzable(pasa, pos, jp))
           => /\ obtener_posicion(ene') = ene_encontrar_camino_bfs(mapa, Escapa, pos, jp)[2]
              /\ Adyacentes(pos, obtener_posicion(ene'))
              /\ obtener_posicion(ene') \in pasa
              /\ Distancia(pasa, obtener_posicion(ene'), jp) = Distancia(pasa, pos, jp) - 1
      ]_vars

\* The enemy has just gone from (2, 0) to (2, 1) after a player on (0, 2),
\* three steps away around the Muro and the Tunel.
C11_Testigo ==
    /\ consulta.op = "actualizar" /\ consulta.modo = Escapa
    /\ mapa.casillas[1][0] = Muro /\ consulta.jugador_pos = <<0, 2>>
    /\ resultado = << <<2, 0>> >> /\ obtener_posicion(ene) = <<2, 1>> /\ ene.conductas = 1
    /\ Distancia(PasaEnemigo(mapa, Escapa), <<2, 0>>, <<0, 2>>) = 4
    /\ Distancia(PasaEnemigo(mapa, Escapa), <<2, 1>>, <<0, 2>>) = 3

\* The neighbour of pos inside pasa nearest to objetivo by Manhattan
\* distance, the first in the order up, down, left, right; pos when no
\* neighbour is inside pasa.
DireccionesPasables(pasa, pos) == { i \in 1 .. 4 : Vecino(pos, i) \in pasa }

VecinoMasCercano(pasa, pos, objetivo) ==
    LET dirs == DireccionesPasables(pasa, pos) IN
    IF dirs = {} THEN pos
    ELSE Vecino(pos, CHOOSE i \in dirs : \A j \in dirs :
                        \/ Manhattan(objetivo, Vecino(pos, i)) < Manhattan(objetivo, Vecino(pos, j))
                        \/ /\ Manhattan(objetivo, Vecino(pos, i)) = Manhattan(objetivo, Vecino(pos, j))
                           /\ i <= j)

SinCaminoAlJugador(pos, jp) ==
    LET camino == ene_encontrar_camino_bfs(mapa, Escapa, pos, jp) IN
    camino = NoCamino \/ Len(camino) < 2

\* C13 as stated: in Escape mode, an update that finds the enemy ACTIVO with
\* its time between moves used up and whose search returns no path of two
\* cells or more to the player, leaves the enemy on the neighbour it may
\* enter that is nearest to the player by Manhattan distance (the first in
\* the order up, down, left, right), and on its cell when it may enter none.
C13_PasoVoraz ==
    [][ LET pasa == PasaEnemigo(mapa, Escapa)
            pos == obtener_posicion(ene)
            jp == consulta'.jugador_pos
        IN (TocaConducta(Escapa) /\ SinCaminoAlJugador(pos, jp))
           => obtener_posicion(ene') = VecinoMasCercano(pasa, pos, jp)
      ]_vars

\* C13 as the code has it: the enemy goes to that neighbour only when it is
\* strictly nearer to the player than the cell of the enemy, and otherwise
\* stays; the update ends ACTIVO with the timer at zero either way.
C13_PasoVorazSiAcerca ==
    [][ LET pasa == PasaEnemigo(mapa, Escapa)
            pos == obtener_posicion(ene)
            jp == consulta'.jugador_pos
            n == VecinoMasCercano(pasa, pos, jp)
        IN (TocaConducta(Escapa) /\ SinCaminoAlJugador(pos, jp))
           => /\ obtener_posicion(ene') =
                    IF Manhattan(jp, n) < Manhattan(jp, pos) THEN n ELSE pos
              /\ ene'.estado = ACTIVO /\ ene'.conductas = 1
              /\ ene'.tiempo_desde_ultimo_movimiento = 0
      ]_vars

\* The player stands on the Tunel at (1, 0), which no path of the enemy
\* reaches, and the enemy has just gone from (1, 2) to (1, 1), nearer than
\* the cells above and below it.
C13_Testigo ==
    /\ consulta.op = "actualizar" /\ consulta.modo = Escapa
    /\ mapa.ancho = 3 /\ mapa.casillas[1][0] = Tunel /\ consulta.jugador_pos = <<1, 0>>
    /\ resultado = << <<1, 2>> >> /\ obtener_posicion(ene) = <<1, 1>> /\ ene.conductas = 1

\* The number of steps from pos to the nearest exit that a walk inside pasa
\* reaches, -1 when it reaches none.
DistanciaASalida(pasa, pos) ==
    LET ds == { Distancia(pasa, pos, mapa.posiciones_salida[i]) :
                  i \in 1 .. Len(mapa.posiciones_salida) } \ {-1}
    IN IF ds = {} THEN -1 ELSE CHOOSE d \in ds : \A e \in ds : d <= e

EsSalida(pos) == \E i \in 1 .. Len(mapa.posiciones_salida) : mapa.posiciones_salida[i] = pos

\* The step of C14 from pos: onto the second cell of the shortest of the
\* paths the search returns to the exits, one step nearer to the nearest
\* exit.
PasoHaciaSalida(pasa, pos, despues) ==
    /\ LET camino == CaminoMasCorto(mapa, pos, mapa.posiciones_salida, 1, NoCamino)
       IN camino # NoCamino /\ Len(camino) >= 2 /\ despues = camino[2]
    /\ Adyacentes(pos, despues) /\ despues \in pasa
    /\ DistanciaASalida(pasa, despues) = DistanciaASalida(pasa, pos) - 1

\* C14 as stated: in Hunter mode, an update that finds the enemy ACTIVO with
\* its time between moves used up, some exit within reach over cells the
\* enemy may enter and the player farther than Manhattan distance 3, moves
\* the enemy onto the second cell of the shortest of the paths to the
\* exits, and the number of steps to the nearest exit within reach goes down
\* by exactly one.
C14_HaciaLaSalida ==
    [][ LET pasa == PasaEnemigo(mapa, Cazador)
            pos == obtener_posicion(ene)
        IN (/\ TocaConducta(Cazador)
            /\ DistanciaASalida(pasa, pos) >= 0
            /\ Manhattan(consulta'.jugador_pos, pos) > DistanciaEvasion)
           => PasoHaciaSalida(pasa, pos, obtener_posicion(ene'))
      ]_vars

\* C14 as the code has it: the same for an enemy that does not stand on an
\* exit; an enemy on an exit stays there.
C14_HaciaLaSalidaDesdeFuera ==
    [][ LET pasa == PasaEnemigo(mapa, Cazador)
            pos == obtener_posicion(ene)
        IN (/\ TocaConducta(Cazador)
            /\ DistanciaASalida(pasa, pos) >= 0
            /\ Manhattan(consulta'.jugador_pos, pos) > DistanciaEvasion)
           => IF EsSalida(pos) THEN obtener_posicion(ene') = pos
              ELSE PasoHaciaSalida(pasa, pos, obtener_posicion(ene'))
      ]_vars

\* With the player five steps away on (0, 0), the enemy has just gone from
\* (2, 3) to the exit on (2, 2), one step away, and not towards the exit on
\* (0, 3), listed first and two steps away.
C14_Testigo ==
    /\ consulta.op = "actualizar" /\ consulta.modo = Cazador
    /\ mapa.ancho = 4 /\ consulta.jugador_pos = <<0, 0>>
    /\ mapa.posiciones_salida = << <<0, 3>>, <<2, 2>> >>
    /\ resultado = << <<2, 3>> >> /\ obtener_posicion(ene) = <<2, 2>> /\ ene.conductas = 1

\* The exits nearest to pos by Manhattan distance.
SalidasMasCercanas(pos) ==
    { mapa.posiciones_salida[i] : i \in { k \in 1 .. Len(mapa.posiciones_salida) :
        \A j \in 1 .. Len(mapa.posiciones_salida) :
            Manhattan(mapa.posiciones_salida[k], pos) <= Manhattan(mapa.posiciones_salida[j], pos) } }

\* The first of them in the list of exits.
PrimeraSalidaMasCercana(pos) ==
    mapa.posiciones_salida[CHOOSE k \in 1 .. Len(mapa.posiciones_salida) :
        /\ mapa.posiciones_salida[k] \in SalidasMasCercanas(pos)
        /\ \A j \in 1 .. k - 1 : mapa.posiciones_salida[j] \notin SalidasMasCercanas(pos)]

SinCaminoASalida(pos) ==
    /\ mapa.posiciones_salida # <<>>
    /\ CaminoMasCorto(mapa, pos, mapa.posiciones_salida, 1, NoCamino) = NoCamino

\* C15 as stated: in Hunter mode, an update that finds the enemy ACTIVO with
\* its time between moves used up and whose search returns no path to any
\* exit, leaves the enemy on the neighbour it may enter under the Hunter
\* rule that is nearest by Manhattan distance to an exit nearest to the
\* enemy (the first such neighbour in the order up, down, left, right), and
\* on its cell when it may enter none.
C15_PasoVorazASalida ==
    [][ LET pasa == PasaEnemigo(mapa, Cazador)
            pos == obtener_posicion(ene)
        IN (TocaConducta(Cazador) /\ SinCaminoASalida(pos))
           => \E salida \in SalidasMasCercanas(pos) :
                  obtener_posicion(ene') = VecinoMasCercano(pasa, pos, salida)
      ]_vars

\* C15 as the code has it: the exit is the first listed of the nearest, and
\* the enemy goes to that neighbour only when it is strictly nearer to the
\* exit than the cell of the enemy, and otherwise stays; the update ends
\* ACTIVO with the timer at zero either way.
C15_PasoVorazASalidaSiAcerca ==
    [][ LET pasa == PasaEnemigo(mapa, Cazador)
            pos == obtener_posicion(ene)
            salida == PrimeraSalidaMasCercana(pos)
            n == VecinoMasCercano(pasa, pos, salida)
        IN (TocaConducta(Cazador) /\ SinCaminoASalida(pos))
           => /\ obtener_posicion(ene') =
                    IF Manhattan(salida, n) < Manhattan(salida, pos) THEN n ELSE pos
              /\ ene'.estado = ACTIVO /\ ene'.conductas = 1
              /\ ene'.tiempo_desde_ultimo_movimiento = 0
      ]_vars

\* Behind the column of Lianas no path leads to an exit, and the enemy has
\* just gone from (1, 0) down to (2, 0), nearer to the exit on (2, 2).
C15_Testigo ==
    /\ consulta.op = "actualizar" /\ consulta.modo = Cazador
    /\ mapa.ancho = 4 /\ mapa.casillas[1][1] = Liana
    /\ resultado = << <<1, 0>> >> /\ obtener_posicion(ene) = <<2, 0>> /\ ene.conductas = 1

(***************************************************************************)
(* Traps (modelo/trampa.py).  A trap is a record [fila, columna, estado];  *)
(* a GestorTrampas is a record whose trampas is the list of its traps.     *)
(***************************************************************************)
ACTIVA == "activa"

INACTIVA == "inactiva"

Trampa(fila, columna) == [fila |-> fila, columna |-> columna, estado |-> ACTIVA]

esta_activa(t) == t.estado = ACTIVA

desactivar(t) == [t EXCEPT !.estado = INACTIVA]

MAX_TRAMPAS_ACTIVAS_DEFAULT == 3

COOLDOWN_COLOCACION == 10

GestorTrampas(max_trampas_activas) ==
    [trampas |-> <<>>,
     max_trampas_activas |-> max_trampas_activas,
     tiempo_ultima_colocacion |-> -COOLDOWN_COLOCACION]

obtener_trampas_activas(g) == SelectSeq(g.trampas, esta_activa)

\* for trampa in self.trampas: whether an active trap stands on the cell.
HayTrampaActivaEn(g, fila, columna) ==
    \E k \in 1 .. Len(g.trampas) :
        obtener_posicion(g.trampas[k]) = <<fila, columna>> /\ esta_activa(g.trampas[k])

\* colocar_trampa without the look at the traps already on the cell.
colocar_trampa_sin_revisar_casilla(g, fila, columna, tiempo_actual) ==
    IF Len(obtener_trampas_activas(g)) >= g.max_trampas_activas
    THEN [gestor |-> g, devuelve |-> FALSE]
    ELSE [gestor |-> [g EXCEPT !.trampas = Append(@, Trampa(fila, columna))],
          devuelve |-> TRUE]

\* colocar_trampa with > in place of >= in the test of the limit.
colocar_trampa_limite_laxo(g, fila, columna, tiempo_actual) ==
    IF Len(obtener_trampas_activas(g)) > g.max_trampas_activas
    THEN [gestor |-> g, devuelve |-> FALSE]
    ELSE IF HayTrampaActivaEn(g, fila, columna) THEN [gestor |-> g, devuelve |-> FALSE]
    ELSE [gestor |-> [g EXCEPT !.trampas = Append(@, Trampa(fila, columna))],
          devuelve |-> TRUE]

\* GestorTrampas.colocar_trampa: the gestor it leaves and what it returns.
colocar_trampa(g, fila, columna, tiempo_actual) ==
    IF Len(obtener_trampas_activas(g)) >= g.max_trampas_activas
    THEN [gestor |-> g, devuelve |-> FALSE]
    ELSE IF HayTrampaActivaEn(g, fila, columna) THEN [gestor |-> g, devuelve |-> FALSE]
    ELSE [gestor |-> [g EXCEPT !.trampas = Append(@, Trampa(fila, columna))],
          devuelve |-> TRUE]

\* The inner loop of verificar_colisiones_enemigos run to the end of the
\* list: every live enemy on the cell.
ColisionesDe_sin_break(lista, trampa_pos) ==
    { i \in 1 .. Len(lista) : esta_vivo(lista[i]) /\ obtener_posicion(lista[i]) = trampa_pos }

\* The inner loop of verificar_colisiones_enemigos: the indices of the
\* enemies the trap on trampa_pos kills, the first live enemy on the cell.
ColisionesDe(lista, trampa_pos) ==
    LET vivos == { i \in 1 .. Len(lista) :
                     esta_vivo(lista[i]) /\ obtener_posicion(lista[i]) = trampa_pos }
    IN IF vivos = {} THEN {} ELSE { CHOOSE i \in vivos : \A j \in vivos : i <= j }

\* The outer loop of verificar_colisiones_enemigos from the k-th trap on:
\* the enemies, the indices of the traps to deactivate (one entry per kill)
\* and the count of kills it ends with.
RECURSIVE BarrerTrampas(_, _, _, _, _)
BarrerTrampas(g, k, lista, trampas_a_desactivar, enemigos_eliminados) ==
    IF k > Len(g.trampas)
    THEN [enemigos |-> lista, trampas_a_desactivar |-> trampas_a_desactivar,
          enemigos_eliminados |-> enemigos_eliminados]
    ELSE IF ~esta_activa(g.trampas[k])
    THEN BarrerTrampas(g, k + 1, lista, trampas_a_desactivar, enemigos_eliminados)
    ELSE LET muertos == ColisionesDe(lista, obtener_posicion(g.trampas[k])) IN
         BarrerTrampas(g, k + 1,
                       [i \in 1 .. Len(lista) |-> IF i \in muertos THEN matar(lista[i])
                                                  ELSE lista[i]],
                       IF muertos = {} THEN trampas_a_desactivar
                       ELSE trampas_a_desactivar \cup {k},
                       enemigos_eliminados + Cardinality(muertos))

\* GestorTrampas.verificar_colisiones_enemigos: the gestor and the enemies it
\* leaves and the count it returns.
verificar_colisiones_enemigos(g, lista) ==
    LET barrido == BarrerTrampas(g, 1, lista, {}, 0)
        desactivadas == [k \in 1 .. Len(g.trampas) |->
                            IF k \in barrido.trampas_a_desactivar
                            THEN desactivar(g.trampas[k]) ELSE g.trampas[k]]
    IN [gestor |-> [g EXCEPT !.trampas = SelectSeq(desactivadas, esta_activa)],
        enemigos |-> barrido.enemigos,
        devuelve |-> barrido.enemigos_eliminados]

(***************************************************************************)
(* SpecTrampas: a GestorTrampas whose caller places traps and has it check *)
(* lists of enemies.  consulta holds the latest call, resultado what it    *)
(* returned and enemigos the list after the latest check.                  *)
(***************************************************************************)
MaximosTrampas == {2, MAX_TRAMPAS_ACTIVAS_DEFAULT}

CeldasTrampas == (0 .. 1) \X (0 .. 1)

MaxEnemigos == 2

\* The enemies of the lists given to the gestor: alive on any cell, or dead
\* on the first.
EnemigosPosibles ==
    { Enemigo(p[1], p[2], 1, 3, FALSE) : p \in CeldasTrampas }
    \cup { matar(Enemigo(0, 0, 1, 3, FALSE)) }

ListasEnemigos == UNION { [1 .. n -> EnemigosPosibles] : n \in 0 .. MaxEnemigos }

TiemposActuales == {0, COOLDOWN_COLOCACION}

InitTrampas ==
    /\ \E max_trampas_activas \in MaximosTrampas : gestor = GestorTrampas(max_trampas_activas)
    /\ enemigos = <<>>
    /\ consulta = [op |-> "crear"]
    /\ resultado = Pendiente
    /\ mapa = Ninguno /\ gen = Ninguno /\ ene = Ninguno /\ juego = Ninguno

ColocarTrampa ==
    /\ \E p \in CeldasTrampas, tiempo_actual \in TiemposActuales :
         LET r == colocar_trampa(gestor, p[1], p[2], tiempo_actual) IN
         /\ gestor' = r.gestor
         /\ resultado' = <<r.devuelve>>
         /\ consulta' = [op |-> "colocar_trampa", fila |-> p[1], columna |-> p[2]]
    /\ UNCHANGED <<mapa, gen, ene, enemigos, juego>>

VerificarColisiones ==
    /\ \E lista \in ListasEnemigos :
         LET r == verificar_colisiones_enemigos(gestor, lista) IN
         /\ gestor' = r.gestor
         /\ enemigos' = r.enemigos
         /\ resultado' = <<r.devuelve>>
         /\ consulta' = [op |-> "verificar_colisiones_enemigos", enemigos |-> lista]
    /\ UNCHANGED <<mapa, gen, ene, juego>>

NextTrampas == ColocarTrampa \/ VerificarColisiones

SpecTrampas == InitTrampas /\ [][NextTrampas]_vars

C17_LimiteYCasillas ==
    LET activas == { k \in 1 .. Len(gestor.trampas) : gestor.trampas[k].estado = ACTIVA }
    IN /\ Cardinality(activas) <= gestor.max_trampas_activas
       /\ \A j, k \in activas :
             j # k => <<gestor.trampas[j].fila, gestor.trampas[j].columna>>
                        # <<gestor.trampas[k].fila, gestor.trampas[k].columna>>

\* A gestor of limit 3 holds three active traps again after a check removed
\* one of them with the enemy it killed, on whose cell a trap stands anew.
C17_Testigo ==
    /\ consulta.op = "colocar_trampa" /\ resultado = <<TRUE>>
    /\ gestor.max_trampas_activas = 3 /\ Len(gestor.trampas) = 3
    /\ \A k \in 1 .. 3 : gestor.trampas[k].estado = ACTIVA
    /\ Len(enemigos) = 1 /\ enemigos[1].estado = MUERTO
    /\ obtener_posicion(enemigos[1]) = <<consulta.fila, consulta.columna>>

\* The live enemies of lista on the cell of trap t.
VivosSobre(lista, t) ==
    { i \in 1 .. Len(lista) :
        lista[i].estado # MUERTO /\ <<lista[i].fila, lista[i].columna>> = <<t.fila, t.columna>> }

TrampaLibre(lista, t) == VivosSobre(lista, t) = {}

\* C18: a call of verificar_colisiones_enemigos kills, for each active trap
\* with a live enemy on its cell, the first such enemy of the list and no
\* other, and removes the trap; the other traps stay, in their order; the
\* count returned is the number of enemies that went from alive to MUERTO
\* and the number of traps removed; afterwards every trap of the list is
\* active and none stands on the cell of a live enemy.
C18_UnaPorTrampa ==
    [][ consulta'.op = "verificar_colisiones_enemigos" =>
          LET lista == consulta'.enemigos
              primeros == { i \in 1 .. Len(lista) :
                              \E k \in 1 .. Len(gestor.trampas) :
                                  /\ gestor.trampas[k].estado = ACTIVA
                                  /\ i \in VivosSobre(lista, gestor.trampas[k])
                                  /\ \A j \in VivosSobre(lista, gestor.trampas[k]) : i <= j }
              caidos == { i \in 1 .. Len(lista) :
                            lista[i].estado # MUERTO /\ enemigos'[i].estado = MUERTO }
          IN /\ Len(enemigos') = Len(lista)
             /\ caidos = primeros
             /\ \A i \in 1 .. Len(lista) :
                   enemigos'[i] = IF i \in primeros THEN matar(lista[i]) ELSE lista[i]
             /\ gestor'.trampas = SelectSeq(gestor.trampas, LAMBDA t : TrampaLibre(lista, t))
             /\ resultado' = <<Cardinality(caidos)>>
             /\ Cardinality(caidos) = Len(gestor.trampas) - Len(gestor'.trampas)
             /\ \A k \in 1 .. Len(gestor'.trampas) :
                   /\ gestor'.trampas[k].estado = ACTIVA
                   /\ TrampaLibre(enemigos', gestor'.trampas[k])
      ]_vars

\* Two live enemies stood on the cell of one trap and a check has just
\* killed the first of them only and removed the trap, leaving the trap of
\* another cell.
C18_Testigo ==
    /\ consulta.op = "verificar_colisiones_enemigos" /\ resultado = <<1>>
    /\ Len(consulta.enemigos) = 2
    /\ consulta.enemigos[1] = consulta.enemigos[2] /\ consulta.enemigos[1].estado = ACTIVO
    /\ enemigos[1].estado = MUERTO /\ enemigos[2].estado = ACTIVO
    /\ Len(gestor.trampas) = 1
    /\ obtener_posicion(gestor.trampas[1]) # obtener_posicion(enemigos[1])

(***************************************************************************)
(* The trap charges of GameModeEscapa (modos/modo_escapa.py).  juego holds *)
(* the fields of the object that the charges depend on, gestor its         *)
(* gestor_trampas and enemigos its list of enemies.  The player stands on  *)
(* jugador_pos; its energy and the score are left out.  inicio_periodo is  *)
(* not a field of the source: it is the game time at which the current     *)
(* wait for a charge began, the latest regeneration or the placement that  *)
(* took the charges below three.                                           *)
(***************************************************************************)
TrampasIniciales == 3

TiempoRegeneracion == 10

TiempoRespawnEscapa == 20

GameModeEscapa(m) ==
    [jugador_pos |-> m.posicion_inicio,
     trampas_disponibles |-> TrampasIniciales,
     tiempo_ultima_regeneracion |-> 0,
     tiempo_juego |-> 0,
     juego_terminado |-> FALSE,
     victoria |-> FALSE,
     enemigos_eliminados |-> 0,
     inicio_periodo |-> 0]

\* The regeneration of actualizar with > in place of >=.
Regenerar_estricta(j) ==
    IF j.trampas_disponibles < TrampasIniciales
       /\ j.tiempo_juego - j.tiempo_ultima_regeneracion > TiempoRegeneracion
    THEN [j EXCEPT !.trampas_disponibles = Min(TrampasIniciales, @ + 1),
                   !.tiempo_ultima_regeneracion = j.tiempo_juego,
                   !.inicio_periodo = j.tiempo_juego]
    ELSE j

\* The regeneration of actualizar, after the game time has advanced.
Regenerar(j) ==
    IF j.trampas_disponibles < TrampasIniciales
       /\ j.tiempo_juego - j.tiempo_ultima_regeneracion >= TiempoRegeneracion
    THEN [j EXCEPT !.trampas_disponibles = Min(TrampasIniciales, @ + 1),
                   !.tiempo_ultima_regeneracion = j.tiempo_juego,
                   !.inicio_periodo = j.tiempo_juego]
    ELSE j

\* for enemigo in self.enemigos: enemigo.actualizar(...): the lists the loop
\* may leave, from the i-th enemy on.
RECURSIVE ActualizarEnemigos(_, _, _, _, _)
ActualizarEnemigos(lista, i, m, jugador_pos, delta_tiempo) ==
    IF i > Len(lista) THEN {lista}
    ELSE UNION { ActualizarEnemigos([lista EXCEPT ![i] = e1], i + 1, m, jugador_pos,
                                    delta_tiempo) :
                   e1 \in actualizar(lista[i], m, jugador_pos, delta_tiempo, Escapa, NingunaPos) }

\* _terminar_juego, without the score.
terminar_juego(j, victoria) == [j EXCEPT !.juego_terminado = TRUE, !.victoria = victoria]

\* The end of actualizar for one outcome of the enemies' updates: the
\* check of the traps, then of the capture, then of the exit.
TrasEnemigos(j, g, m, lista) ==
    LET r == verificar_colisiones_enemigos(g, lista)
        j1 == [j EXCEPT !.enemigos_eliminados = @ + r.devuelve]
        atrapado == \E i \in 1 .. Len(r.enemigos) :
                        /\ esta_vivo(r.enemigos[i])
                        /\ obtener_posicion(r.enemigos[i]) = j.jugador_pos
    IN [juego |-> IF atrapado THEN terminar_juego(j1, FALSE)
                  ELSE IF es_posicion_salida(m, j.jugador_pos[1], j.jugador_pos[2])
                  THEN terminar_juego(j1, TRUE)
                  ELSE j1,
        gestor |-> r.gestor,
        enemigos |-> r.enemigos]

\* GameModeEscapa.actualizar: the objects the call may leave.
juego_actualizar(j, g, lista, m, delta_tiempo) ==
    IF j.juego_terminado THEN { [juego |-> j, gestor |-> g, enemigos |-> lista] }
    ELSE LET j1 == Regenerar([j EXCEPT !.tiempo_juego = @ + delta_tiempo]) IN
         { TrasEnemigos(j1, g, m, lista1) :
             lista1 \in ActualizarEnemigos(lista, 1, m, j.jugador_pos, delta_tiempo) }

\* colocar_trampa of the game without the test of the charges.
juego_colocar_trampa_sin_revisar_disponibles(j, g, pos) ==
    IF j.juego_terminado THEN [juego |-> j, gestor |-> g, devuelve |-> FALSE]
    ELSE LET p == IF pos = NingunaPos THEN j.jugador_pos ELSE pos IN
         IF Len(obtener_trampas_activas(g)) >= 3
         THEN [juego |-> j, gestor |-> g, devuelve |-> FALSE]
         ELSE LET r == colocar_trampa(g, p[1], p[2], j.tiempo_juego) IN
              IF r.devuelve
              THEN [juego |-> [j EXCEPT !.trampas_disponibles = @ - 1,
                                        !.tiempo_ultima_regeneracion = j.tiempo_juego,
                                        !.inicio_periodo =
                                            IF j.trampas_disponibles = TrampasIniciales
                                            THEN j.tiempo_juego ELSE @],
                    gestor |-> r.gestor, devuelve |-> TRUE]
              ELSE [juego |-> j, gestor |-> g, devuelve |-> FALSE]

\* GameModeEscapa.colocar_trampa, pos being NingunaPos when the cell is not
\* given: the objects it leaves and what it returns.
juego_colocar_trampa(j, g, pos) ==
    IF j.juego_terminado THEN [juego |-> j, gestor |-> g, devuelve |-> FALSE]
    ELSE IF j.trampas_disponibles <= 0 THEN [juego |-> j, gestor |-> g, devuelve |-> FALSE]
    ELSE LET p == IF pos = NingunaPos THEN j.jugador_pos ELSE pos IN
         IF Len(obtener_trampas_activas(g)) >= 3
         THEN [juego |-> j, gestor |-> g, devuelve |-> FALSE]
         ELSE LET r == colocar_trampa(g, p[1], p[2], j.tiempo_juego) IN
              IF r.devuelve
              THEN [juego |-> [j EXCEPT !.trampas_disponibles = @ - 1,
                                        !.tiempo_ultima_regeneracion = j.tiempo_juego,
                                        !.inicio_periodo =
                                            IF j.trampas_disponibles = TrampasIniciales
                                            THEN j.tiempo_juego ELSE @],
                    gestor |-> r.gestor, devuelve |-> TRUE]
              ELSE [juego |-> j, gestor |-> g, devuelve |-> FALSE]

(***************************************************************************)
(* SpecEscapa: a game of GameModeEscapa on a hand-built grid with one      *)
(* enemy, updated by its caller, who places traps on the cell of the       *)
(* player or on a cell it names.  The game time is kept within             *)
(* MaxTiempoJuego.                                                         *)
(***************************************************************************)
MaxTiempoJuego == 30

DeltasJuego == {5, TiempoRegeneracion}

CeldasColocar == {NingunaPos, <<0, 1>>, <<1, 2>>, <<2, 1>>}

EnemigosIniciales(m) ==
    { <<Enemigo(p[1], p[2], 1, TiempoRespawnEscapa, FALSE)>> :
        p \in { q \in PasaEnemigo(m, Escapa) :
                  q # m.posicion_inicio /\ ~es_posicion_salida(m, q[1], q[2]) } }

InitEscapa ==
    /\ mapa \in MapasEnemigo
    /\ enemigos \in EnemigosIniciales(mapa)
    /\ juego = GameModeEscapa(mapa)
    /\ gestor = GestorTrampas(3)
    /\ consulta = [op |-> "crear"]
    /\ resultado = Pendiente
    /\ gen = Ninguno /\ ene = Ninguno

ActualizarJuego ==
    /\ \E delta_tiempo \in DeltasJuego :
         /\ juego.tiempo_juego + delta_tiempo <= MaxTiempoJuego
         /\ \E r \in juego_actualizar(juego, gestor, enemigos, mapa, delta_tiempo) :
              juego' = r.juego /\ gestor' = r.gestor /\ enemigos' = r.enemigos
         /\ consulta' = [op |-> "actualizar", delta_tiempo |-> delta_tiempo]
    /\ resultado' = Pendiente
    /\ UNCHANGED <<mapa, gen, ene>>

ColocarTrampaJuego ==
    /\ \E pos \in CeldasColocar :
         LET r == juego_colocar_trampa(juego, gestor, pos) IN
         /\ juego' = r.juego /\ gestor' = r.gestor
         /\ resultado' = <<r.devuelve>>
         /\ consulta' = [op |-> "colocar_trampa", pos |-> pos]
    /\ UNCHANGED <<mapa, gen, ene, enemigos>>

NextEscapa == ActualizarJuego \/ ColocarTrampaJuego

SpecEscapa == InitEscapa /\ [][NextEscapa]_vars

\* The cell a placement asks for.
CeldaPedida == IF consulta'.pos = NingunaPos THEN juego.jugador_pos ELSE consulta'.pos

\* The reasons of C19 for refusing a placement.
ColocacionRechazable ==
    \/ juego.juego_terminado
    \/ juego.trampas_disponibles = 0
    \/ Len(SelectSeq(gestor.trampas, esta_activa)) >= 3
    \/ \E k \in 1 .. Len(gestor.trampas) :
          /\ gestor.trampas[k].estado = ACTIVA
          /\ <<gestor.trampas[k].fila, gestor.trampas[k].columna>> = CeldaPedida

\* C19: the charges start at 3 and stay within 0 .. 3 through updates and
\* placements; a placement that succeeds takes one charge; a placement made
\* with the game over, no charge, three active traps or an active trap on
\* the cell returns false and leaves the charges, the regeneration timer and
\* the list of traps as they were, and any other placement succeeds.
C19_CargasDeTrampas ==
    /\ juego.trampas_disponibles = 3
    /\ [][ /\ juego'.trampas_disponibles \in 0 .. 3
           /\ consulta'.op = "colocar_trampa" =>
                IF ColocacionRechazable
                THEN /\ resultado' = <<FALSE>>
                     /\ juego'.trampas_disponibles = juego.trampas_disponibles
                     /\ juego'.tiempo_ultima_regeneracion = juego.tiempo_ultima_regeneracion
                     /\ gestor'.trampas = gestor.trampas
                ELSE /\ resultado' = <<TRUE>>
                     /\ juego'.trampas_disponibles = juego.trampas_disponibles - 1
                     /\ Len(gestor'.trampas) = Len(gestor.trampas) + 1
         ]_vars

\* With a charge regained and the game going on, a placement on a free cell
\* has just been refused because three traps are active.
C19_Testigo ==
    /\ consulta.op = "colocar_trampa" /\ resultado = <<FALSE>>
    /\ ~juego.juego_terminado /\ juego.trampas_disponibles = 1
    /\ Len(gestor.trampas) = 3
    /\ \A k \in 1 .. 3 : obtener_posicion(gestor.trampas[k]) # <<2, 1>>
    /\ consulta.pos = <<2, 1>>

\* C20 as stated: an update of a game that goes on with fewer than 3 charges
\* gives one charge back exactly when 5 seconds of game time have passed
\* since the wait for a charge began (the latest regeneration, or the
\* placement that took the charges below 3), whatever the active traps and
\* the placements made since; the charges never exceed 3.
C20_RegeneracionFija ==
    [][ /\ juego'.trampas_disponibles <= 3
        /\ (consulta'.op = "actualizar" /\ ~juego.juego_terminado
            /\ juego.trampas_disponibles < 3)
           => juego'.trampas_disponibles =
                 IF juego'.tiempo_juego - juego.inicio_periodo >= TiempoRegeneracion
                 THEN juego.trampas_disponibles + 1
                 ELSE juego.trampas_disponibles
      ]_vars

\* C20 as the code has it: the 5 seconds run from the latest regeneration or
\* the latest successful placement, whichever is later; the update that
\* gives a charge back restarts the timer, and an update of a game with 3
\* charges gives none.
C20_RegeneracionDesdeColocacion ==
    [][ /\ juego'.trampas_disponibles <= 3
        /\ (consulta'.op = "colocar_trampa" /\ resultado' = <<TRUE>>)
           => juego'.tiempo_ultima_regeneracion = juego.tiempo_juego
        /\ (consulta'.op = "actualizar" /\ ~juego.juego_terminado)
           => IF /\ juego.trampas_disponibles < 3
                 /\ juego'.tiempo_juego - juego.tiempo_ultima_regeneracion >= TiempoRegeneracion
              THEN /\ juego'.trampas_disponibles = juego.trampas_disponibles + 1
                   /\ juego'.tiempo_ultima_regeneracion = juego'.tiempo_juego
              ELSE /\ juego'.trampas_disponibles = juego.trampas_disponibles
                   /\ juego'.tiempo_ultima_regeneracion = juego.tiempo_ultima_regeneracion
      ]_vars

\* An update has just given a charge back 5 seconds after the latest
\* placement, 7.5 seconds into a wait that began with an earlier placement,
\* with two traps active.
C20_Testigo ==
    /\ consulta.op = "actualizar" /\ ~juego.juego_terminado
    /\ juego.trampas_disponibles = 2
    /\ juego.tiempo_ultima_regeneracion = juego.tiempo_juego
    /\ juego.inicio_periodo = juego.tiempo_juego
    /\ juego.tiempo_juego = 15
    /\ Len(gestor.trampas) = 2

(***************************************************************************)
(* modelo/jugador.py and the mover_jugador of the two game modes.          *)
(*                                                                         *)
(* Energy is counted in 1/200 of a point, so that the walking cost (0.5),  *)
(* the running cost (1.5) and the 0.5 % of energia_maxima lost every fifth *)
(* move are integers for every whole energia_maxima.  A mover result is a  *)
(* record [jugador, devuelve].                                             *)
(***************************************************************************)
ENERGIA_CAMINAR == 100
ENERGIA_CORRER == 300

Puntos(n) == 2 * ENERGIA_CAMINAR * n

\* Units recovered per half second at tasa_recuperacion = 1.0 point/second.
TasaRecuperacion == ENERGIA_CAMINAR

MovimientosPorPerdida == 5
MovimientosPorPerdidaCazador == 3

Jugador(fila, columna, energia_maxima) ==
    [fila |-> fila, columna |-> columna, energia_maxima |-> energia_maxima,
     energia_actual |-> energia_maxima, movimientos_desde_ultima_perdida |-> 0]

puede_correr(j) == j.energia_actual >= ENERGIA_CORRER

consumir_energia(j, cantidad) ==
    IF cantidad <= 0 THEN [jugador |-> j, devuelve |-> FALSE]
    ELSE IF j.energia_actual >= cantidad
         THEN [jugador |-> [j EXCEPT !.energia_actual = Max(0, @ - cantidad)],
               devuelve |-> TRUE]
         ELSE [jugador |-> j, devuelve |-> FALSE]

recuperar_energia_sin_tope(j, cantidad) ==
    IF cantidad > 0 THEN [j EXCEPT !.energia_actual = @ + cantidad] ELSE j

recuperar_energia(j, cantidad) ==
    IF cantidad > 0
    THEN [j EXCEPT !.energia_actual = Min(j.energia_maxima, @ + cantidad)]
    ELSE j

actualizar_energia(j, delta_tiempo, tasa_recuperacion) ==
    IF j.energia_actual < j.energia_maxima
    THEN recuperar_energia(j, delta_tiempo * tasa_recuperacion)
    ELSE j

DireccionesJugador == {"arriba", "abajo", "izquierda", "derecha"}

\* The cell one step from (fila, columna) in direccion.
Destino(fila, columna, direccion) ==
    CASE direccion = "arriba" -> <<fila - 1, columna>>
      [] direccion = "abajo" -> <<fila + 1, columna>>
      [] direccion = "izquierda" -> <<fila, columna - 1>>
      [] direccion = "derecha" -> <<fila, columna + 1>>

\* energia_maxima * 0.005
PerdidaPeriodica(j) == j.energia_maxima \div (2 * ENERGIA_CAMINAR)

\* int(energia_maxima * 0.01), in points, as units
PerdidaPeriodicaCazador(j) ==
    Puntos((j.energia_maxima \div (2 * ENERGIA_CAMINAR)) \div 100)

\* Jugador._mover
jugador_mover(j, m, nueva_fila, nueva_col, corriendo) ==
    IF ~es_posicion_valida(m, nueva_fila, nueva_col)
    THEN [jugador |-> j, devuelve |-> FALSE]
    ELSE IF ~es_transitable_por_jugador(m, nueva_fila, nueva_col, Escapa)
    THEN [jugador |-> j, devuelve |-> FALSE]
    ELSE IF corriendo /\ ~puede_correr(j)
    THEN [jugador |-> j, devuelve |-> FALSE]
    ELSE LET pagado == consumir_energia(j, IF corriendo THEN ENERGIA_CORRER
                                           ELSE ENERGIA_CAMINAR).jugador
             movido == [pagado EXCEPT !.fila = nueva_fila, !.columna = nueva_col,
                                      !.movimientos_desde_ultima_perdida = @ + 1]
         IN [jugador |->
                IF movido.movimientos_desde_ultima_perdida >= MovimientosPorPerdida
                THEN [movido EXCEPT
                        !.energia_actual = Max(0, @ - PerdidaPeriodica(movido)),
                        !.movimientos_desde_ultima_perdida = 0]
                ELSE movido,
             devuelve |-> TRUE]

\* Jugador.mover_arriba, mover_abajo, mover_izquierda, mover_derecha
mover(j, m, direccion, corriendo) ==
    LET d == Destino(j.fila, j.columna, direccion)
    IN jugador_mover(j, m, d[1], d[2], corriendo)

\* The controllers: controlador names the class, "Jugador" a player used
\* without a controller.
GameModeEscapaC == "GameModeEscapa"
GameModeCazadorC == "GameModeCazador"
SoloJugador == "Jugador"

GameMode(controlador, m, energia_inicial) ==
    [controlador |-> controlador,
     jugador |-> Jugador(m.posicion_inicio[1], m.posicion_inicio[2], energia_inicial),
     movimientos |-> 0, juego_terminado |-> FALSE, victoria |-> FALSE]

ModoDe(g) == IF g.controlador = GameModeCazadorC THEN Cazador ELSE Escapa

\* mover_jugador without the look at juego_terminado.
escapa_mover_jugador_tras_el_fin(g, m, direccion, corriendo) ==
    LET r == mover(g.jugador, m, direccion, corriendo)
    IN [juego |-> [g EXCEPT !.jugador = r.jugador,
                            !.movimientos = IF r.devuelve THEN @ + 1 ELSE @],
        devuelve |-> r.devuelve]

\* GameModeEscapa.mover_jugador; the result is [juego, devuelve].
escapa_mover_jugador(g, m, direccion, corriendo) ==
    IF g.juego_terminado THEN [juego |-> g, devuelve |-> FALSE]
    ELSE LET r == mover(g.jugador, m, direccion, corriendo)
         IN [juego |-> [g EXCEPT !.jugador = r.jugador,
                                 !.movimientos = IF r.devuelve THEN @ + 1 ELSE @],
             devuelve |-> r.devuelve]

cazador_mover_jugador_regla_escapa(g, m, direccion, corriendo) ==
    escapa_mover_jugador(g, m, direccion, corriendo)

\* GameModeCazador.mover_jugador
cazador_mover_jugador(g, m, direccion, corriendo) ==
    IF g.juego_terminado THEN [juego |-> g, devuelve |-> FALSE]
    ELSE LET j == g.jugador
             d == Destino(j.fila, j.columna, direccion)
         IN IF ~(/\ es_posicion_valida(m, d[1], d[2])
                 /\ es_transitable_por_jugador(m, d[1], d[2], Cazador))
            THEN [juego |-> g, devuelve |-> FALSE]
            ELSE IF corriendo /\ ~puede_correr(j)
            THEN [juego |-> g, devuelve |-> FALSE]
            ELSE LET pagado == consumir_energia(j, IF corriendo THEN ENERGIA_CORRER
                                                   ELSE ENERGIA_CAMINAR).jugador
                     movido == [pagado EXCEPT
                                  !.fila = d[1], !.columna = d[2],
                                  !.movimientos_desde_ultima_perdida = @ + 1]
                     final ==
                       IF movido.movimientos_desde_ultima_perdida
                            >= MovimientosPorPerdidaCazador
                       THEN [consumir_energia(movido, PerdidaPeriodicaCazador(movido)).jugador
                               EXCEPT !.movimientos_desde_ultima_perdida = 0]
                       ELSE movido
                 IN [juego |-> [g EXCEPT !.jugador = final, !.movimientos = @ + 1],
                     devuelve |-> TRUE]

(***************************************************************************)
(* SpecJugador: a player on a grid, moved through Jugador or through the   *)
(* mover_jugador of a game mode, its energy consumed and recovered.        *)
(* juego holds the controller with its player, consulta the latest call    *)
(* and resultado what it returned.                                         *)
(***************************************************************************)
MaxMovimientos == 5

EnergiasMaximas == {Puntos(2), Puntos(100)}

Cantidades == {0, Puntos(99)}

\* 99 seconds, in half seconds
DeltasEnergia == {2 * 99}

LlamadaJugador(op, direccion, corriendo, cantidad) ==
    [op |-> op, direccion |-> direccion, corriendo |-> corriendo, cantidad |-> cantidad]

InitJugador ==
    /\ mapa \in MapasEnemigo
    /\ \E controlador \in {GameModeEscapaC, GameModeCazadorC, SoloJugador},
          energia_inicial \in EnergiasMaximas :
         juego = GameMode(controlador, mapa, energia_inicial)
    /\ consulta = LlamadaJugador("crear", "", FALSE, 0)
    /\ resultado = Pendiente
    /\ gen = Ninguno /\ ene = Ninguno /\ gestor = Ninguno /\ enemigos = Ninguno

MoverDirecto_marcando_inicio ==
    /\ juego.controlador = SoloJugador
    /\ \E direccion \in DireccionesJugador, corriendo \in BOOLEAN :
         LET r == mover(juego.jugador, mapa, direccion, corriendo)
         IN /\ juego' = [juego EXCEPT !.jugador = r.jugador]
            /\ resultado' = <<r.devuelve>>
            /\ consulta' = LlamadaJugador("mover", direccion, corriendo, 0)
            /\ mapa' = [mapa EXCEPT !.posicion_inicio = <<r.jugador.fila, r.jugador.columna>>]
    /\ UNCHANGED <<gen, ene, gestor, enemigos>>

MoverDirecto ==
    /\ juego.controlador = SoloJugador
    /\ \E direccion \in DireccionesJugador, corriendo \in BOOLEAN :
         LET r == mover(juego.jugador, mapa, direccion, corriendo)
         IN /\ juego' = [juego EXCEPT !.jugador = r.jugador]
            /\ resultado' = <<r.devuelve>>
            /\ consulta' = LlamadaJugador("mover", direccion, corriendo, 0)
    /\ UNCHANGED <<mapa, gen, ene, gestor, enemigos>>

MoverJugadorEscapa ==
    /\ juego.controlador = GameModeEscapaC
    /\ juego.movimientos < MaxMovimientos
    /\ \E direccion \in DireccionesJugador, corriendo \in BOOLEAN :
         LET r == escapa_mover_jugador(juego, mapa, direccion, corriendo)
         IN /\ juego' = r.juego
            /\ resultado' = <<r.devuelve>>
            /\ consulta' = LlamadaJugador("mover_jugador", direccion, corriendo, 0)
    /\ UNCHANGED <<mapa, gen, ene, gestor, enemigos>>

MoverJugadorCazador ==
    /\ juego.controlador = GameModeCazadorC
    /\ juego.movimientos < MaxMovimientos
    /\ \E direccion \in DireccionesJugador, corriendo \in BOOLEAN :
         LET r == cazador_mover_jugador(juego, mapa, direccion, corriendo)
         IN /\ juego' = r.juego
            /\ resultado' = <<r.devuelve>>
            /\ consulta' = LlamadaJugador("mover_jugador", direccion, corriendo, 0)
    /\ UNCHANGED <<mapa, gen, ene, gestor, enemigos>>

ConsumirEnergia ==
    /\ \E cantidad \in Cantidades :
         LET r == consumir_energia(juego.jugador, cantidad)
         IN /\ juego' = [juego EXCEPT !.jugador = r.jugador]
            /\ resultado' = <<r.devuelve>>
            /\ consulta' = LlamadaJugador("consumir_energia", "", FALSE, cantidad)
    /\ UNCHANGED <<mapa, gen, ene, gestor, enemigos>>

RecuperarEnergia ==
    /\ \E cantidad \in Cantidades :
         /\ juego' = [juego EXCEPT !.jugador = recuperar_energia(@, cantidad)]
         /\ consulta' = LlamadaJugador("recuperar_energia", "", FALSE, cantidad)
    /\ resultado' = Pendiente
    /\ UNCHANGED <<mapa, gen, ene, gestor, enemigos>>

ActualizarEnergia ==
    /\ \E delta_tiempo \in DeltasEnergia :
         /\ juego' = [juego EXCEPT
                        !.jugador = actualizar_energia(@, delta_tiempo, TasaRecuperacion)]
         /\ consulta' = LlamadaJugador("actualizar_energia", "", FALSE, delta_tiempo)
    /\ resultado' = Pendiente
    /\ UNCHANGED <<mapa, gen, ene, gestor, enemigos>>

TerminarJuego ==
    /\ juego.controlador # SoloJugador
    /\ ~juego.juego_terminado
    /\ \E victoria \in BOOLEAN :
         juego' = terminar_juego(juego, victoria)
    /\ consulta' = LlamadaJugador("terminar_juego", "", FALSE, 0)
    /\ resultado' = Pendiente
    /\ UNCHANGED <<mapa, gen, ene, gestor, enemigos>>

NextJugador ==
    \/ MoverDirecto
    \/ MoverJugadorEscapa
    \/ MoverJugadorCazador
    \/ ConsumirEnergia
    \/ RecuperarEnergia
    \/ ActualizarEnergia
    \/ TerminarJuego

SpecJugador == InitJugador /\ [][NextJugador]_vars

\* C21: in every state reached by moves through Jugador or through either
\* game mode and by consumir_energia, recuperar_energia and
\* actualizar_energia, 0 <= energia_actual <= energia_maxima.
C21_EnergiaEnRango ==
    /\ 0 <= juego.jugador.energia_actual
    /\ juego.jugador.energia_actual <= juego.jugador.energia_maxima

\* A recovery has just been cut at energia_maxima.
C21_Testigo ==
    /\ consulta.op \in {"recuperar_energia", "actualizar_energia"}
    /\ juego.jugador.energia_actual = juego.jugador.energia_maxima
    /\ juego.jugador.movimientos_desde_ultima_perdida > 0

\* The call just made is a move request, through Jugador or a game mode.
EsMovimiento == consulta'.op \in {"mover", "mover_jugador"}

\* The cell the request just made asks for, from the player's cell before it.
DestinoPedido ==
    Destino(juego.jugador.fila, juego.jugador.columna, consulta'.direccion)

\* That cell is off the grid or one the player may not enter under the mode
\* of the controller (the Escape rule for a player without controller).
DestinoImpasable ==
    ~es_transitable_por_jugador(mapa, DestinoPedido[1], DestinoPedido[2], ModoDe(juego))

\* The player cannot pay for the kind of move requested.
SinEnergiaParaMover ==
    juego.jugador.energia_actual
        < (IF consulta'.corriendo THEN ENERGIA_CORRER ELSE ENERGIA_CAMINAR)

\* C22: a move request whose target is off the grid or impassable to the
\* player, or that the player lacks the energy to pay for (walking or
\* running), returns False and leaves the position, the energy and
\* movimientos_desde_ultima_perdida unchanged.
C22_MovimientoRechazado ==
    [][ (EsMovimiento /\ ~juego.juego_terminado
         /\ (DestinoImpasable \/ SinEnergiaParaMover))
        => /\ resultado' = <<FALSE>>
           /\ juego'.jugador = juego.jugador
      ]_vars

\* What the code does keep of C22: a request to an off-grid or impassable
\* cell, and a running request without ENERGIA_CORRER, are rejected with
\* the player unchanged.
C22_RechazoSalvoCaminar ==
    [][ (EsMovimiento
         /\ (DestinoImpasable \/ (consulta'.corriendo /\ SinEnergiaParaMover)))
        => /\ resultado' = <<FALSE>>
           /\ juego'.jugador = juego.jugador
      ]_vars

\* A walking request to a passable cell was accepted from a player with
\* less than ENERGIA_CAMINAR: it moved without paying.
C22_CaminaSinEnergia ==
    /\ consulta.op \in {"mover", "mover_jugador"}
    /\ ~consulta.corriendo
    /\ resultado = <<TRUE>>
    /\ juego.jugador.energia_actual < ENERGIA_CAMINAR
    /\ juego.jugador.movimientos_desde_ultima_perdida > 0

\* The move just made is a successful walking move made by Jugador._mover.
CaminataExitosa ==
    /\ EsMovimiento /\ ~consulta'.corriendo
    /\ juego.controlador # GameModeCazadorC
    /\ resultado' = <<TRUE>>

\* The extra loss of the fifth move since the last one, cut at zero.
PerdidaExtra(j, pagado) ==
    IF j.movimientos_desde_ultima_perdida + 1 >= MovimientosPorPerdida
    THEN Min(PerdidaPeriodica(j), pagado)
    ELSE 0

\* C23: every successful walking move of Jugador._mover puts the player on
\* the adjacent cell in the requested direction and takes exactly
\* ENERGIA_CAMINAR from its energy; the periodic loss is taken in addition
\* on every fifth successful move only.
C23_CostoDeCaminar ==
    [][ CaminataExitosa
        => /\ <<juego'.jugador.fila, juego'.jugador.columna>> = DestinoPedido
           /\ juego'.jugador.energia_actual
                = juego.jugador.energia_actual - ENERGIA_CAMINAR
                  - PerdidaExtra(juego.jugador,
                                 juego.jugador.energia_actual - ENERGIA_CAMINAR)
      ]_vars

\* What the code does keep of C23: the step, and the cost for a player that
\* holds at least ENERGIA_CAMINAR.
C23_CostoSiAlcanza ==
    [][ CaminataExitosa
        => /\ <<juego'.jugador.fila, juego'.jugador.columna>> = DestinoPedido
           /\ juego.jugador.energia_actual >= ENERGIA_CAMINAR
              => juego'.jugador.energia_actual
                   = juego.jugador.energia_actual - ENERGIA_CAMINAR
                     - PerdidaExtra(juego.jugador,
                                    juego.jugador.energia_actual - ENERGIA_CAMINAR)
           /\ juego.jugador.energia_actual < ENERGIA_CAMINAR
              => juego'.jugador.energia_actual
                   = juego.jugador.energia_actual
                     - PerdidaExtra(juego.jugador, juego.jugador.energia_actual)
      ]_vars

\* The player of g stands on a cell of the grid that it may enter under the
\* mode of g.
CasillaLegal(g) ==
    /\ es_posicion_valida(mapa, g.jugador.fila, g.jugador.columna)
    /\ es_transitable_por_jugador(mapa, g.jugador.fila, g.jugador.columna, ModoDe(g))

\* C24: a player moved only through the mover_jugador of a game mode, from
\* the start cell, stands on a cell of the grid that the player may enter
\* under the mode of that controller (Escape: Tunel yes, Liana no; Hunter:
\* Liana yes, Tunel no), and each successful move is one step to a
\* 4-adjacent cell.
C24_CasillaLegal ==
    /\ CasillaLegal(juego)
    /\ [][ juego.controlador # SoloJugador
           => /\ CasillaLegal(juego')
              /\ (consulta'.op = "mover_jugador" /\ resultado' = <<TRUE>>)
                 => Adyacentes(<<juego.jugador.fila, juego.jugador.columna>>,
                               <<juego'.jugador.fila, juego'.jugador.columna>>)
         ]_vars

\* The Hunter player has just stepped onto a Liana, which the Escape rule
\* forbids.
C24_Testigo ==
    /\ juego.controlador = GameModeCazadorC
    /\ consulta.op = "mover_jugador" /\ resultado = <<TRUE>>
    /\ mapa.casillas[juego.jugador.fila][juego.jugador.columna] = Liana

(***************************************************************************)
(* SpecConstruir: one call of Mapa(...) with arbitrary arguments, then     *)
(* obtener_casilla on the grid it built.  The matrix is given as a list of *)
(* rows that need not have the same length.  consulta holds the latest     *)
(* call, resultado what it returned or the exception it raised, and mapa   *)
(* the grid once built.                                                    *)
(***************************************************************************)
ValueError == "ValueError"
IndexError == "IndexError"
Construido == "Mapa"

\* A list of rows as the 0-based matrix the grid stores.
Matriz(filas) ==
    [f \in 0 .. Len(filas) - 1 |->
        [c \in 0 .. Len(filas[f + 1]) - 1 |-> filas[f + 1][c + 1]]]

EnLimites(p, ancho, alto) == 0 <= p[1] /\ p[1] < alto /\ 0 <= p[2] /\ p[2] < ancho

\* The validations with a start that must be below the first row.
MapaRechazado_inicio_interior(ancho, alto, filas, posicion_inicio, posiciones_salida) ==
    \/ ancho <= 0 \/ alto <= 0
    \/ Len(filas) # alto
    \/ (Len(filas) > 0 /\ Len(filas[1]) # ancho)
    \/ ~(0 < posicion_inicio[1] /\ EnLimites(posicion_inicio, ancho, alto))
    \/ posiciones_salida = <<>>
    \/ \E i \in 1 .. Len(posiciones_salida) : ~EnLimites(posiciones_salida[i], ancho, alto)

\* The validations of Mapa.__init__ on a list of rows: TRUE when one raises.
MapaRechazado(ancho, alto, filas, posicion_inicio, posiciones_salida) ==
    ~MapaValido(ancho, alto, Matriz(filas), posicion_inicio, posiciones_salida)

\* Mapa.obtener_casilla: the tile, None, or the IndexError of the list
\* access when the matrix has no such cell.
obtener_casilla(m, fila, columna) ==
    IF ~es_posicion_valida(m, fila, columna) THEN Ninguno
    ELSE IF fila \in DOMAIN m.casillas /\ columna \in DOMAIN m.casillas[fila]
         THEN m.casillas[fila][columna]
         ELSE IndexError

MaxLado == 2

Lados == 0 .. MaxLado

\* Lists of at most MaxLado rows of at most MaxLado Camino tiles each.
FilasPosibles ==
    LET fila(n) == [c \in 1 .. n |-> Camino]
    IN UNION { [1 .. k -> {fila(n) : n \in Lados}] : k \in Lados }

PosicionesConstruir == {<<0, 0>>, <<1, 1>>, <<0, -1>>, <<MaxLado, 0>>}

SalidasConstruir ==
    UNION { [1 .. k -> PosicionesConstruir] : k \in 0 .. 2 }

LlamadaMapa(ancho, alto, filas, posicion_inicio, posiciones_salida) ==
    [op |-> "Mapa", ancho |-> ancho, alto |-> alto, casillas |-> filas,
     posicion_inicio |-> posicion_inicio, posiciones_salida |-> posiciones_salida]

InitConstruir ==
    /\ mapa = Ninguno
    /\ \E ancho \in Lados, alto \in Lados, filas \in FilasPosibles,
          posicion_inicio \in PosicionesConstruir, posiciones_salida \in SalidasConstruir :
         consulta = LlamadaMapa(ancho, alto, filas, posicion_inicio, posiciones_salida)
    /\ resultado = Pendiente
    /\ gen = Ninguno /\ ene = Ninguno /\ SinJuego

\* Mapa.__init__
Construir ==
    /\ consulta.op = "Mapa" /\ resultado = Pendiente
    /\ IF MapaRechazado(consulta.ancho, consulta.alto, consulta.casillas,
                        consulta.posicion_inicio, consulta.posiciones_salida)
       THEN /\ resultado' = <<ValueError>>
            /\ UNCHANGED mapa
       ELSE /\ resultado' = <<Construido>>
            /\ mapa' = Mapa(consulta.ancho, consulta.alto, Matriz(consulta.casillas),
                            consulta.posicion_inicio, consulta.posiciones_salida)
    /\ UNCHANGED <<consulta, gen, ene, gestor, enemigos, juego>>

HayMapa == consulta.op = "obtener_casilla" \/ resultado = <<Construido>>

ObtenerCasilla ==
    /\ HayMapa
    /\ \E fila \in -1 .. MaxLado, columna \in -1 .. MaxLado :
         /\ consulta' = [op |-> "obtener_casilla", pos |-> <<fila, columna>>]
         /\ resultado' = <<obtener_casilla(mapa, fila, columna)>>
    /\ UNCHANGED <<mapa, gen, ene, gestor, enemigos, juego>>

NextConstruir == Construir \/ ObtenerCasilla

SpecConstruir == InitConstruir /\ [][NextConstruir]_vars

\* The arguments the claim lists as invalid.
ArgumentosInvalidos(c) ==
    \/ c.ancho <= 0 \/ c.alto <= 0
    \/ ~EnLimites(c.posicion_inicio, c.ancho, c.alto)
    \/ c.posiciones_salida = <<>>
    \/ \E i \in 1 .. Len(c.posiciones_salida) :
         ~EnLimites(c.posiciones_salida[i], c.ancho, c.alto)

\* The matrix has not alto rows, or its first row has not ancho cells.
MatrizDescuadrada(c) ==
    \/ Len(c.casillas) # c.alto
    \/ (Len(c.casillas) > 0 /\ Len(c.casillas[1]) # c.ancho)

AtributosComoDados ==
    /\ mapa'.ancho = consulta.ancho /\ mapa'.alto = consulta.alto
    /\ mapa'.casillas = Matriz(consulta.casillas)
    /\ mapa'.posicion_inicio = consulta.posicion_inicio
    /\ mapa'.posiciones_salida = consulta.posiciones_salida

\* C25: Mapa(...) raises and builds nothing when ancho or alto is not
\* positive, the start is out of bounds, there is no exit or an exit is out
\* of bounds; in every other case it builds the grid with the attributes as
\* given.
C25_ConstruccionValidada ==
    [][ (consulta.op = "Mapa" /\ resultado = Pendiente)
        => IF ArgumentosInvalidos(consulta)
           THEN resultado' = <<ValueError>> /\ UNCHANGED mapa
           ELSE resultado' = <<Construido>> /\ AtributosComoDados
      ]_vars

\* C25 as the code has it: the call also raises when the matrix has not
\* alto rows or its first row has not ancho cells.
C25_ConstruccionValidadaConMatriz ==
    [][ (consulta.op = "Mapa" /\ resultado = Pendiente)
        => IF ArgumentosInvalidos(consulta) \/ MatrizDescuadrada(consulta)
           THEN resultado' = <<ValueError>> /\ UNCHANGED mapa
           ELSE resultado' = <<Construido>> /\ AtributosComoDados
      ]_vars

\* A call with valid dimensions, start and exits has raised because of the
\* matrix alone.
C25_Testigo ==
    /\ consulta.op = "Mapa" /\ resultado = <<ValueError>>
    /\ ~ArgumentosInvalidos(consulta)
    /\ consulta.posiciones_salida = << <<1, 1>>, <<0, 0>> >>

\* C26: a grid that was built has positive dimensions, its start and exits
\* within bounds, at least one exit, and a matrix of exactly alto rows of
\* exactly ancho cells each, so obtener_casilla finds a tile on every
\* position within bounds.
C26_MapaBienFormado ==
    HayMapa
    => /\ mapa.ancho > 0 /\ mapa.alto > 0
       /\ EnLimites(mapa.posicion_inicio, mapa.ancho, mapa.alto)
       /\ mapa.posiciones_salida # <<>>
       /\ \A i \in 1 .. Len(mapa.posiciones_salida) :
            EnLimites(mapa.posiciones_salida[i], mapa.ancho, mapa.alto)
       /\ DOMAIN mapa.casillas = 0 .. mapa.alto - 1
       /\ \A f \in DOMAIN mapa.casillas : DOMAIN mapa.casillas[f] = 0 .. mapa.ancho - 1
       /\ (consulta.op = "obtener_casilla"
           /\ es_posicion_valida(mapa, consulta.pos[1], consulta.pos[2]))
          => resultado[1] \in TipoTile

\* What the code does keep of C26: everything but the length of the rows
\* after the first.
C26_SalvoFilas ==
    HayMapa
    => /\ mapa.ancho > 0 /\ mapa.alto > 0
       /\ EnLimites(mapa.posicion_inicio, mapa.ancho, mapa.alto)
       /\ mapa.posiciones_salida # <<>>
       /\ \A i \in 1 .. Len(mapa.posiciones_salida) :
            EnLimites(mapa.posiciones_salida[i], mapa.ancho, mapa.alto)
       /\ DOMAIN mapa.casillas = 0 .. mapa.alto - 1
       /\ DOMAIN mapa.casillas[0] = 0 .. mapa.ancho - 1

\* A query within bounds on a built grid has ended in an IndexError.
C26_ConsultaSinCasilla ==
    /\ consulta.op = "obtener_casilla"
    /\ es_posicion_valida(mapa, consulta.pos[1], consulta.pos[2])
    /\ resultado = <<IndexError>>

(***************************************************************************)
(* SpecPartida: the gameplay operations on a built grid, as one of four    *)
(* runs: an enemy driven by actualizar and matar, an ACTIVO enemy driven   *)
(* with a player, a player moved through Jugador or a game mode, and a     *)
(* GameModeEscapa with its traps.  The run is told by the fields of the    *)
(* call record.                                                            *)
(***************************************************************************)
EsPartidaDeEnemigo == "posicion_spawn" \in DOMAIN consulta
EsPartidaDeConducta == "jugador_pos" \in DOMAIN consulta
EsPartidaDeJugador == "corriendo" \in DOMAIN consulta
EsPartidaDeEscapa ==
    ~(EsPartidaDeEnemigo \/ EsPartidaDeConducta \/ EsPartidaDeJugador)

InitPartida == InitEnemigo \/ InitConducta \/ InitJugador \/ InitEscapa

NextPartida ==
    \/ EsPartidaDeEnemigo /\ NextEnemigo
    \/ EsPartidaDeConducta /\ NextConducta
    \/ EsPartidaDeJugador /\ NextJugador
    \/ EsPartidaDeEscapa /\ NextEscapa

SpecPartida == InitPartida /\ [][NextPartida]_vars

LlamadasSalidas ==
    { <<4, 4, 2, Escapa>>, <<5, 5, SinCantidad, Escapa>>, <<5, 5, 3, Cazador>>,
      <<5, 5, 8, Escapa>>, <<6, 5, 2, Escapa>>, <<7, 5, 1, Escapa>> }

InitSalidas ==
    /\ \E ll \in LlamadasSalidas : gen = GenInicial(ll[1], ll[2], ll[3], ll[4])
    /\ mapa = Ninguno
    /\ InitOtrosGen

NextSalidas == ElegirSalidas \/ SortearSalida

SpecSalidas == InitSalidas /\ [][NextSalidas]_vars

\* generar_mapa returns a grid only for these dimensions: below 5 its
\* _agregar_caminos_alternativos raises.
DevuelveMapa(g) == g.ancho >= 5 /\ g.alto >= 5

\* The exits of g are what C28 says of a call that asked for pedida exits.
SalidasComoPedidas(g, pedida) ==
    LET s == g.posiciones_salida
        cand == Rango(Candidatos(g))
    IN /\ IF pedida = SinCantidad THEN Len(s) \in {1, 2} ELSE Len(s) = pedida
       /\ \A i, j \in 1 .. Len(s) : i # j => s[i] # s[j]
       /\ \A i \in 1 .. Len(s) :
            /\ s[i] # PosicionInicioGen
            /\ 0 < s[i][1] /\ s[i][1] < g.alto - 1
            /\ 0 < s[i][2] /\ s[i][2] < g.ancho - 1
       /\ \A i \in 1 .. Len(s) :
            s[i] \notin cand => (cand \subseteq {s[j] : j \in 1 .. i - 1})

\* C28: when generar_mapa has its exits, they are 1 or 2 if no number was
\* asked for and as many as asked for otherwise, pairwise distinct, none on
\* the start (1,1), all strictly inside the border, and a cell that is not
\* a corner or edge-midpoint candidate comes only after all the candidates.
C28_SalidasGeneradas ==
    /\ gen.pc = "inicio"
    /\ [][ /\ (gen.pc = "inicio" /\ gen'.pc = "laberinto" /\ DevuelveMapa(gen))
              => SalidasComoPedidas(gen', gen.cantidad_salidas)
           /\ (gen.pc = "sortear" /\ gen'.pc = "laberinto" /\ DevuelveMapa(gen))
              => SalidasComoPedidas(gen', gen.cantidad_salidas)
         ]_vars

\* Eight exits on a 5x5 grid: the seven candidates and then the one
\* interior cell left, drawn at random.
C28_Testigo ==
    /\ gen.pc = "laberinto" /\ DevuelveMapa(gen)
    /\ Len(gen.posiciones_salida) = 8
    /\ gen.posiciones_salida[8] = <<2, 2>>

\* The member of EstadoEnemigo that no statement assigns.
ESPERANDO_RESPAWN == "esperando_respawn"

\* The call just made changed the state of the enemy from a to b.
CambiaEstado(a, b) == ene.estado = a /\ ene'.estado = b

\* C29: the state of the enemy changes only from EN_SPAWN to
\* SALIENDO_SPAWN (an update with a spawn, the wait elapsed), from EN_SPAWN
\* to ACTIVO (an update without spawn), from SALIENDO_SPAWN to ACTIVO (an
\* update), from a live state to MUERTO (a kill), from MUERTO to EN_SPAWN
\* (an update with a spawn) or from MUERTO to ACTIVO (an update without
\* spawn); an ACTIVO enemy stays ACTIVO through every update, and no enemy
\* is ever ESPERANDO_RESPAWN.
C29_TransicionesDeEstado ==
    [][ /\ ene'.estado \in {EN_SPAWN, SALIENDO_SPAWN, ACTIVO, MUERTO}
        /\ ene'.estado # ESPERANDO_RESPAWN
        /\ (consulta'.op = "actualizar" /\ ene.estado = ACTIVO) => ene'.estado = ACTIVO
        /\ ene'.estado # ene.estado
           => \/ /\ CambiaEstado(EN_SPAWN, SALIENDO_SPAWN)
                 /\ consulta'.op = "actualizar"
                 /\ consulta'.posicion_spawn # NingunaPos
                 /\ ene.tiempo_en_spawn + consulta'.delta_tiempo >= TiempoEsperaSpawn
              \/ /\ CambiaEstado(EN_SPAWN, ACTIVO)
                 /\ consulta'.op = "actualizar"
                 /\ consulta'.posicion_spawn = NingunaPos
              \/ /\ CambiaEstado(SALIENDO_SPAWN, ACTIVO)
                 /\ consulta'.op = "actualizar"
              \/ /\ ene.estado \in {EN_SPAWN, SALIENDO_SPAWN, ACTIVO}
                 /\ ene'.estado = MUERTO
                 /\ consulta'.op = "matar"
              \/ /\ CambiaEstado(MUERTO, EN_SPAWN)
                 /\ consulta'.op = "actualizar"
                 /\ consulta'.posicion_spawn # NingunaPos
              \/ /\ CambiaEstado(MUERTO, ACTIVO)
                 /\ consulta'.op = "actualizar"
                 /\ consulta'.posicion_spawn = NingunaPos
      ]_vars

\* An enemy that was ACTIVO, was killed and waited as MUERTO has just come
\* back EN_SPAWN on the spawn.
C29_Testigo ==
    /\ consulta.op = "actualizar"
    /\ ene.estado = EN_SPAWN /\ ene.estado_anterior = MUERTO
    /\ obtener_posicion(ene) = PosicionSpawn
    /\ ene.acum_movimiento > 0

\* The Camino cells of the matrix of g.
CaminosDe(g) == { p \in Celdas(g) : g.casillas[p[1]][p[2]] = Camino }

\* The cell between two visited cells two steps apart in a row or column.
EntreVisitadas(g, p) ==
    \/ <<p[1] - 1, p[2]>> \in g.visitado /\ <<p[1] + 1, p[2]>> \in g.visitado
    \/ <<p[1], p[2] - 1>> \in g.visitado /\ <<p[1], p[2] + 1>> \in g.visitado

EnBorde(g, p) ==
    p[1] = 0 \/ p[1] = g.alto - 1 \/ p[2] = 0 \/ p[2] = g.ancho - 1

LaberintoPerfecto(g) ==
    LET caminos == CaminosDe(g)
        pares == { pq \in caminos \X caminos : Adyacentes(pq[1], pq[2]) }
    IN /\ caminos # {}
       /\ Cierre(caminos, {CHOOSE p \in caminos : TRUE}) = caminos
       /\ Cardinality(pares) = 2 * (Cardinality(caminos) - 1)
       /\ \A p, q \in g.visitado : (p[1] - q[1]) % 2 = 0 /\ (p[2] - q[2]) % 2 = 0
       /\ g.visitado \subseteq caminos
       /\ \A p \in caminos : p \in g.visitado \/ EntreVisitadas(g, p)
       /\ \A p \in Celdas(g) : g.casillas[p[1]][p[2]] \in {Camino, Muro}
       /\ \A p \in Celdas(g) : EnBorde(g, p) => g.casillas[p[1]][p[2]] = Muro

\* C30: while _dfs_laberinto carves and when it has finished, before
\* _agregar_caminos_alternativos, the Camino cells are 4-connected and form
\* no cycle, the visited cells are all an even number of rows and columns
\* from the first one, every Camino cell is a visited cell or the cell
\* opened between two visited ones and every other cell is Muro, and every
\* cell of the border is Muro.
C30_LaberintoPerfecto ==
    gen.pc \in {"dfs", "alternativos"} => LaberintoPerfecto(gen)

\* The carve of a 7x5 grid has finished with its six cells visited.
C30_Testigo ==
    /\ gen.pc = "alternativos"
    /\ gen.ancho = 7
    /\ Cardinality(gen.visitado) = 6
    /\ Cardinality(CaminosDe(gen)) = 11

(***************************************************************************)
(* C31: the Tunel rolls of the terrain variation in Hunter mode.           *)
(* _agregar_variacion_terreno_segura_multiple is applied to base grids as  *)
(* generar_mapa hands them over: a maze carved from odd cells, the start   *)
(* and the exits forced to Camino, every exit reachable.                   *)
(***************************************************************************)
\* The state of generar_mapa(modo="cazador") before the variation.
BaseCazador(ancho, alto, filas, posiciones_salida) ==
    [GenInicial(ancho, alto, Len(posiciones_salida), Cazador) EXCEPT
        !.pc = "variacion", !.posiciones_salida = posiciones_salida,
        !.casillas = DeFilas(filas)]

BasesVariacion ==
    LET C == Camino
        M == Muro
    IN { BaseCazador(7, 7, << <<M, M, M, M, M, M, M>>,
                              <<M, C, C, C, C, C, M>>,
                              <<M, C, M, M, M, M, M>>,
                              <<M, C, C, C, C, C, M>>,
                              <<M, C, M, M, M, C, M>>,
                              <<M, C, M, C, C, C, M>>,
                              <<M, M, M, M, M, M, M>> >>, << <<5, 1>> >>),
         BaseCazador(9, 8, << <<M, M, M, M, M, M, M, M, M>>,
                              <<M, C, C, C, C, C, C, C, M>>,
                              <<M, M, M, M, M, M, M, C, M>>,
                              <<M, C, C, C, C, C, C, C, M>>,
                              <<M, C, M, M, M, M, M, C, M>>,
                              <<M, C, C, C, C, C, M, C, M>>,
                              <<M, M, M, M, M, M, M, C, M>>,
                              <<M, M, M, M, M, M, M, M, M>> >>, << <<6, 7>> >>) }

InitVariacion ==
    /\ gen \in BasesVariacion
    /\ mapa = Ninguno
    /\ InitOtrosGen

\* casillas = self._agregar_variacion_terreno_segura_multiple(...): the
\* grid received is kept in base, the protected cells in criticas.
VariarTerreno ==
    /\ gen.pc = "variacion"
    /\ \E cv \in VariacionSegura(gen) :
         gen' = [gen EXCEPT !.base = gen.casillas, !.criticas = cv[1],
                            !.casillas = cv[2], !.pc = "variado"]
    /\ UNCHANGED <<mapa, consulta, resultado, ene, gestor, enemigos, juego>>

NextVariacion == VariarTerreno

SpecVariacion == InitVariacion /\ [][NextVariacion]_vars

\* The enemy-spawn corners and the start, as the claim places them.
CercaDeEsquinasOInicio(g, p) ==
    \/ Manhattan(p, <<1, 1>>) < 4
    \/ Manhattan(p, <<g.alto - 2, 1>>) < 4
    \/ Manhattan(p, PosicionInicioGen) < 6

\* The central band with width/2 and width/5 as quotients:
\* |col - ancho/2| < ancho/5 is 5 * |2 col - ancho| < 2 ancho.
BandaCentral(g, p) ==
    \/ 5 * Abs(2 * p[2] - g.ancho) < 2 * g.ancho
    \/ 5 * Abs(2 * p[1] - g.alto) < 2 * g.alto

\* The central band with both divisions rounded down, as ancho // 2 and
\* ancho // 5 are.
BandaCentralEntera(g, p) ==
    \/ Abs(p[2] - g.ancho \div 2) < g.ancho \div 5
    \/ Abs(p[1] - g.alto \div 2) < g.alto \div 5

\* The variation left p without a Tunel: as it was, or a Camino made Liana.
SinTunelEn(g, p) ==
    \/ g.casillas[p[1]][p[2]] = g.base[p[1]][p[2]]
    \/ g.base[p[1]][p[2]] = Camino /\ g.casillas[p[1]][p[2]] = Liana

\* C31 as stated, the band read with exact quotients: after the variation of
\* a Hunter grid no cell of the central band, within distance < 4 of an
\* enemy corner or within distance < 6 of the start holds a Tunel; it is as
\* it was or a Liana.
C31_SinTunelEnBanda ==
    gen.pc = "variado" =>
        \A p \in Celdas(gen) :
            BandaCentral(gen, p) \/ CercaDeEsquinasOInicio(gen, p) => SinTunelEn(gen, p)

\* C31 with the band the code computes: |col - ancho div 2| < ancho div 5 or
\* |row - alto div 2| < alto div 5, both divisions rounded down; in that
\* band, near the two corners and near the start no Tunel is placed, and the
\* cell is as it was or a Liana.
C31_SinTunelEnBandaEntera ==
    gen.pc = "variado" =>
        \A p \in Celdas(gen) :
            BandaCentralEntera(gen, p) \/ CercaDeEsquinasOInicio(gen, p) =>
                SinTunelEn(gen, p)

\* A varied Hunter grid where an unprotected cell near the lower corner only
\* and one in the rounded band became Liana, and a cell elsewhere a Tunel.
C31_Testigo ==
    LET libres == { p \in Celdas(gen) \ gen.criticas : gen.base[p[1]][p[2]] = Camino } IN
    /\ gen.pc = "variado"
    /\ \E p \in libres : /\ ~BandaCentralEntera(gen, p) /\ CercaDeEsquinasOInicio(gen, p)
                         /\ gen.casillas[p[1]][p[2]] = Liana
    /\ \E q \in libres : BandaCentralEntera(gen, q) /\ gen.casillas[q[1]][q[2]] = Liana
    /\ \E r \in libres : gen.casillas[r[1]][r[2]] = Tunel

(***************************************************************************)
(* The whole GameModeEscapa: the player with its energy, the moves, the    *)
(* score and the end of the game, with the values of Dificultad.FACIL.     *)
(* The record keeps inicio_periodo as GameModeEscapa(m) does.              *)
(***************************************************************************)
EnergiaInicialJugador == Puntos(200)
PuntosBaseEscapa == 100
PuntosPorEnemigoEliminado == 15
PuntosMinimos == 50

\* GameModeEscapa.__init__ on a given grid whose cell (1, 1) is the start.
GameModeEscapaCompleto(m) ==
    [controlador |-> GameModeEscapaC,
     jugador |-> Jugador(1, 1, EnergiaInicialJugador),
     trampas_disponibles |-> TrampasIniciales,
     tiempo_ultima_regeneracion |-> 0,
     tiempo_juego |-> 0,
     puntos |-> 0,
     juego_terminado |-> FALSE,
     victoria |-> FALSE,
     movimientos |-> 0,
     enemigos_eliminados |-> 0,
     inicio_periodo |-> 0]

\* The bonuses of _terminar_juego(victoria=True); the time is in half
\* seconds and the energy in units of 1/200 point.
BonoTiempo(j) ==
    IF j.tiempo_juego <= 60 THEN 150
    ELSE IF j.tiempo_juego <= 120 THEN 120 - j.tiempo_juego \div 2
    ELSE IF j.tiempo_juego <= 180 THEN 90 - j.tiempo_juego \div 4
    ELSE Max(0, 60 - (33 * j.tiempo_juego) \div 200)

BonoEficiencia(j) ==
    IF j.tiempo_juego > 0 /\ j.movimientos > 0
    THEN IF j.tiempo_juego < j.movimientos THEN 30
         ELSE IF j.tiempo_juego < 2 * j.movimientos THEN 20
         ELSE IF j.tiempo_juego < 3 * j.movimientos THEN 10
         ELSE 0
    ELSE 0

BonoTrampas(j) ==
    LET trampas_usadas == TrampasIniciales - j.trampas_disponibles IN
    IF trampas_usadas > 0 /\ j.enemigos_eliminados > 0
       /\ j.enemigos_eliminados >= trampas_usadas
    THEN (5 * j.enemigos_eliminados) \div trampas_usadas
    ELSE 0

PuntajeFinalEscapa(j) ==
    Max(PuntosMinimos,
        PuntosBaseEscapa + BonoTiempo(j)
        + j.enemigos_eliminados * PuntosPorEnemigoEliminado
        + j.jugador.energia_actual \div (4 * ENERGIA_CAMINAR)
        + BonoEficiencia(j) + BonoTrampas(j))

\* GameModeEscapa._terminar_juego
escapa_terminar_juego(j, victoria) ==
    [j EXCEPT !.juego_terminado = TRUE, !.victoria = victoria,
              !.puntos = IF victoria THEN PuntajeFinalEscapa(j) ELSE @]

\* Whether a live enemy of the list stands on the cell of the player.
Atrapado(j, lista) ==
    \E i \in 1 .. Len(lista) :
        esta_vivo(lista[i]) /\ obtener_posicion(lista[i]) = obtener_posicion(j.jugador)

\* The end of actualizar with the capture looked at before the traps.
escapa_tras_enemigos_captura_primero(j, g, m, lista) ==
    IF Atrapado(j, lista)
    THEN [juego |-> escapa_terminar_juego(j, FALSE), gestor |-> g, enemigos |-> lista,
          tras_enemigos |-> lista]
    ELSE LET r == verificar_colisiones_enemigos(g, lista)
             j1 == [j EXCEPT !.enemigos_eliminados = @ + r.devuelve,
                             !.puntos = @ + r.devuelve * PuntosPorEnemigoEliminado]
         IN [juego |-> IF es_posicion_salida(m, j.jugador.fila, j.jugador.columna)
                       THEN escapa_terminar_juego(j1, TRUE) ELSE j1,
             gestor |-> r.gestor, enemigos |-> r.enemigos, tras_enemigos |-> lista]

\* The end of actualizar with the exit looked at before the capture.
escapa_tras_enemigos_salida_primero(j, g, m, lista) ==
    LET r == verificar_colisiones_enemigos(g, lista)
        j1 == [j EXCEPT !.enemigos_eliminados = @ + r.devuelve,
                        !.puntos = @ + r.devuelve * PuntosPorEnemigoEliminado]
    IN [juego |-> IF es_posicion_salida(m, j1.jugador.fila, j1.jugador.columna)
                  THEN escapa_terminar_juego(j1, TRUE)
                  ELSE IF Atrapado(j1, r.enemigos) THEN escapa_terminar_juego(j1, FALSE)
                  ELSE j1,
        gestor |-> r.gestor, enemigos |-> r.enemigos, tras_enemigos |-> lista]

\* The end of GameModeEscapa.actualizar for one outcome of the enemies'
\* loop: the traps, the score of the kills, the capture, the exit.
\* tras_enemigos keeps the list the loop left.
escapa_tras_enemigos(j, g, m, lista) ==
    LET r == verificar_colisiones_enemigos(g, lista)
        j1 == [j EXCEPT !.enemigos_eliminados = @ + r.devuelve,
                        !.puntos = @ + r.devuelve * PuntosPorEnemigoEliminado]
    IN [juego |-> IF Atrapado(j1, r.enemigos) THEN escapa_terminar_juego(j1, FALSE)
                  ELSE IF es_posicion_salida(m, j1.jugador.fila, j1.jugador.columna)
                  THEN escapa_terminar_juego(j1, TRUE)
                  ELSE j1,
        gestor |-> r.gestor, enemigos |-> r.enemigos, tras_enemigos |-> lista]

\* GameModeEscapa.actualizar: the objects the call may leave.
escapa_actualizar(j, g, lista, m, delta_tiempo) ==
    IF j.juego_terminado
    THEN { [juego |-> j, gestor |-> g, enemigos |-> lista, tras_enemigos |-> lista] }
    ELSE LET j1 == Regenerar([j EXCEPT
                        !.tiempo_juego = @ + delta_tiempo,
                        !.jugador = actualizar_energia(@, delta_tiempo, TasaRecuperacion)])
         IN { escapa_tras_enemigos(j1, g, m, lista1) :
                lista1 \in ActualizarEnemigos(lista, 1, m, obtener_posicion(j.jugador),
                                              delta_tiempo) }

\* GameModeEscapa.colocar_trampa on the whole game; pos is NingunaPos when
\* the cell is not given.
escapa_colocar_trampa(j, g, pos) ==
    juego_colocar_trampa(j, g, IF pos = NingunaPos THEN obtener_posicion(j.jugador) ELSE pos)

(***************************************************************************)
(* SpecModoEscapa: a game of GameModeEscapa with two enemies on a 3x3      *)
(* grid; its caller updates it, moves the player and places traps.         *)
(***************************************************************************)
MaxTiempoPartida == 6

MaxMovimientosPartida == 2

DeltasPartida == {2}

MapaPartidaEscapa ==
    Mapa(3, 3, DeFilas(<< <<Camino, Liana, Camino>>,
                          <<Tunel, Camino, Camino>>,
                          <<Camino, Camino, Camino>> >>), <<1, 1>>, << <<2, 2>> >>)

\* The enemies _crear_enemigos leaves: on distinct cells they may enter,
\* none on the player or on an exit.  The speed, which the difficulty
\* sets, is taken as one move a second.
EnemigosDePartida(m) ==
    { << Enemigo(p[1], p[2], 1, TiempoRespawnEscapa, FALSE),
         Enemigo(q[1], q[2], 1, TiempoRespawnEscapa, FALSE) >> :
        p \in { <<0, 2>>, <<1, 2>> }, q \in { <<2, 0>>, <<2, 1>> } }

InitModoEscapa ==
    /\ mapa = MapaPartidaEscapa
    /\ enemigos \in { l \in EnemigosDePartida(mapa) :
                        obtener_posicion(l[1]) # obtener_posicion(l[2]) }
    /\ juego = GameModeEscapaCompleto(mapa)
    /\ gestor = GestorTrampas(3)
    /\ consulta = [op |-> "crear"]
    /\ resultado = Pendiente
    /\ gen = Ninguno /\ ene = Ninguno

EscapaActualizar ==
    /\ juego.controlador = GameModeEscapaC
    /\ \E delta_tiempo \in DeltasPartida :
         /\ juego.juego_terminado \/ juego.tiempo_juego + delta_tiempo <= MaxTiempoPartida
         /\ \E r \in escapa_actualizar(juego, gestor, enemigos, mapa, delta_tiempo) :
              /\ juego' = r.juego /\ gestor' = r.gestor /\ enemigos' = r.enemigos
              /\ consulta' = [op |-> "actualizar", delta_tiempo |-> delta_tiempo,
                              tras_enemigos |-> r.tras_enemigos]
    /\ resultado' = Pendiente
    /\ UNCHANGED <<mapa, gen, ene>>

EscapaMoverJugador ==
    /\ juego.controlador = GameModeEscapaC
    /\ juego.juego_terminado \/ juego.movimientos < MaxMovimientosPartida
    /\ \E direccion \in DireccionesJugador, corriendo \in BOOLEAN :
         LET r == escapa_mover_jugador(juego, mapa, direccion, corriendo) IN
         /\ juego' = r.juego
         /\ resultado' = <<r.devuelve>>
         /\ consulta' = [op |-> "mover_jugador", direccion |-> direccion,
                         corriendo |-> corriendo]
    /\ UNCHANGED <<mapa, gen, ene, gestor, enemigos>>

EscapaColocarTrampa ==
    /\ juego.controlador = GameModeEscapaC
    /\ \E pos \in {NingunaPos, <<1, 2>>} :
         LET r == escapa_colocar_trampa(juego, gestor, pos) IN
         /\ juego' = r.juego /\ gestor' = r.gestor
         /\ resultado' = <<r.devuelve>>
         /\ consulta' = [op |-> "colocar_trampa", pos |-> pos]
    /\ UNCHANGED <<mapa, gen, ene, enemigos>>

NextModoEscapa == EscapaActualizar \/ EscapaMoverJugador \/ EscapaColocarTrampa

SpecModoEscapa == InitModoEscapa /\ [][NextModoEscapa]_vars

(***************************************************************************)
(* C32: the traps are looked at before the capture in an update.           *)
(***************************************************************************)
\* A step that is an update of a running Escape game.
ActualizaEscapa ==
    /\ juego.controlador = GameModeEscapaC /\ ~juego.juego_terminado
    /\ consulta'.op = "actualizar"

\* The enemies that, once the enemies' loop is over, are alive on a cell
\* holding an active trap, and among them the first of each cell in the list.
SobreTrampa ==
    { i \in 1 .. Len(consulta'.tras_enemigos) :
        LET e == consulta'.tras_enemigos[i] IN
        esta_vivo(e) /\ HayTrampaActivaEn(gestor, e.fila, e.columna) }

PrimerosSobreTrampa ==
    { i \in SobreTrampa :
        \A k \in SobreTrampa :
            obtener_posicion(consulta'.tras_enemigos[k])
              = obtener_posicion(consulta'.tras_enemigos[i]) => i <= k }

\* The update ended the game as a loss although no enemy outside S stood
\* alive on the cell of the player after the enemies' loop.
PerdidaSinCulpable(S) ==
    /\ juego'.juego_terminado /\ ~juego'.victoria
    /\ ~\E i \in (1 .. Len(consulta'.tras_enemigos)) \ S :
           /\ esta_vivo(consulta'.tras_enemigos[i])
           /\ obtener_posicion(consulta'.tras_enemigos[i]) = obtener_posicion(juego.jugador)

\* The kills of S are counted and scored once each; the score of an update
\* that ends in victory is the final score of _terminar_juego.
MuertesContadas(S) ==
    /\ juego'.enemigos_eliminados = juego.enemigos_eliminados + Cardinality(S)
    /\ ~juego'.victoria =>
          juego'.puntos = juego.puntos + Cardinality(S) * PuntosPorEnemigoEliminado

\* C32 as stated: in an update of GameModeEscapa every enemy that is alive
\* on a cell with an active trap after the enemies' loop is killed in that
\* update, before the capture check, so that none of them makes the update
\* a loss, even with the trap on the player's cell; each kill adds
\* puntos_por_enemigo_eliminado to the score and one to enemigos_eliminados.
C32_TrampaAntesDeCaptura ==
    [][ActualizaEscapa =>
          /\ \A i \in SobreTrampa : enemigos'[i].estado = MUERTO
          /\ ~PerdidaSinCulpable(SobreTrampa)
          /\ MuertesContadas(SobreTrampa)]_vars

\* C32 as the code has it: of the live enemies standing on a cell with an
\* active trap after the enemies' loop, the first of each cell in the list
\* is killed before the capture check and the others are not; a killed enemy
\* never makes the update a loss; each kill adds
\* puntos_por_enemigo_eliminado and one to enemigos_eliminados.
C32_PrimeroDeCadaTrampa ==
    [][ActualizaEscapa =>
          /\ \A i \in 1 .. Len(enemigos') :
                (esta_vivo(consulta'.tras_enemigos[i]) /\ enemigos'[i].estado = MUERTO)
                  <=> i \in PrimerosSobreTrampa
          /\ ~PerdidaSinCulpable(PrimerosSobreTrampa)
          /\ MuertesContadas(PrimerosSobreTrampa)]_vars

\* An update has just killed, on a trap, an enemy that was on the cell of
\* the player, and the game goes on.
C32_Testigo ==
    /\ juego.controlador = GameModeEscapaC /\ consulta.op = "actualizar"
    /\ ~juego.juego_terminado
    /\ juego.puntos = PuntosPorEnemigoEliminado /\ juego.enemigos_eliminados = 1
    /\ \E i \in 1 .. Len(enemigos) :
          /\ esta_vivo(consulta.tras_enemigos[i]) /\ enemigos[i].estado = MUERTO
          /\ obtener_posicion(enemigos[i]) = obtener_posicion(juego.jugador)

\* Two enemies reached the trap on the cell of the player in one update:
\* the first was killed and the second caught the player.
C32_SegundoAtrapa ==
    /\ juego.controlador = GameModeEscapaC /\ consulta.op = "actualizar"
    /\ juego.juego_terminado /\ ~juego.victoria /\ juego.enemigos_eliminados = 1
    /\ enemigos[1].estado = MUERTO /\ esta_vivo(enemigos[2])
    /\ obtener_posicion(enemigos[1]) = obtener_posicion(juego.jugador)
    /\ obtener_posicion(enemigos[2]) = obtener_posicion(juego.jugador)

(***************************************************************************)
(* C33: capture and exit at the end of an update of GameModeEscapa.        *)
(***************************************************************************)
JugadorEnSalida(j) == es_posicion_salida(mapa, j.jugador.fila, j.jugador.columna)

\* C33: an update of GameModeEscapa that leaves a live enemy on the cell of
\* the player leaves the game ended as a loss, also when that cell is an
\* exit; victory is declared only by an update that leaves the player on an
\* exit with no live enemy on its cell.
C33_CapturaAntesQueSalida ==
    [][/\ (juego.controlador = GameModeEscapaC /\ consulta'.op = "actualizar"
           /\ Atrapado(juego', enemigos'))
          => juego'.juego_terminado /\ ~juego'.victoria
       /\ (juego.controlador = GameModeEscapaC /\ juego'.victoria /\ ~juego.victoria)
          => /\ ActualizaEscapa
             /\ JugadorEnSalida(juego') /\ ~Atrapado(juego', enemigos')]_vars

\* An update found the player on an exit together with a live enemy: lost.
C33_Testigo ==
    /\ juego.controlador = GameModeEscapaC /\ consulta.op = "actualizar"
    /\ JugadorEnSalida(juego) /\ Atrapado(juego, enemigos)
    /\ juego.juego_terminado /\ ~juego.victoria

\* An update found the player alone on an exit: won, with the final score.
C33_Victoria ==
    /\ juego.controlador = GameModeEscapaC /\ consulta.op = "actualizar"
    /\ JugadorEnSalida(juego) /\ juego.victoria /\ juego.juego_terminado
    /\ juego.puntos = PuntajeFinalEscapa(juego)

(***************************************************************************)
(* The whole GameModeCazador, with the values of Dificultad.FACIL: the     *)
(* player hunts three enemies that run for an exit.  The enemies move      *)
(* once a second here.  The list enemigos_cerca_salida, rebuilt by every   *)
(* update for the display, is not kept.                                    *)
(***************************************************************************)
PuntosBaseCazador == 50
PuntosPerdidosPorEscape == 5
CantidadEnemigosCazador == 3
RadioBusqueda == 10
TiempoCombo == 10
MaxBonoCombo == 20
TiempoMostrarPuntos == 4

\* for radio in range(desde, RadioBusqueda): for df ...: for dc ...: the
\* first cell of the scan around centro that Acepta, or NingunaPos.
PrimeraEnBarrido(centro, desde, Acepta(_)) ==
    LET dd == -(RadioBusqueda - 1) .. (RadioBusqueda - 1)
        cand == { t \in (desde .. RadioBusqueda - 1) \X dd \X dd :
                    /\ Abs(t[2]) <= t[1] /\ Abs(t[3]) <= t[1]
                    /\ Acepta(<<centro[1] + t[2], centro[2] + t[3]>>) }
        antes(t, u) == \/ t[1] < u[1]
                       \/ t[1] = u[1] /\ t[2] < u[2]
                       \/ t[1] = u[1] /\ t[2] = u[2] /\ t[3] <= u[3]
    IN IF cand = {} THEN NingunaPos
       ELSE LET t == CHOOSE t \in cand : \A u \in cand : antes(t, u)
            IN <<centro[1] + t[2], centro[2] + t[3]>>

\* GameModeCazador.__init__: the cell of the player, the lower right corner
\* or the first cell near it that the player may enter.
InicioCazador(m) ==
    LET esquina == <<m.alto - 2, m.ancho - 2>>
        Acepta(p) == /\ es_posicion_valida(m, p[1], p[2])
                     /\ es_transitable_por_jugador(m, p[1], p[2], Cazador)
    IN IF es_transitable_por_jugador(m, esquina[1], esquina[2], Cazador) THEN esquina
       ELSE LET p == PrimeraEnBarrido(esquina, 1, Acepta)
            IN IF p = NingunaPos THEN esquina ELSE p

\* _buscar_posicion_cercana_esquina: es_transitable_por_enemigo is called
\* without the mode, which is the Escape rule.
buscar_posicion_cercana_esquina(m, esquina, posiciones_ocupadas) ==
    LET Acepta(p) == /\ es_posicion_valida(m, p[1], p[2])
                     /\ es_transitable_por_enemigo(m, p[1], p[2], Escapa)
                     /\ p \notin posiciones_ocupadas
    IN PrimeraEnBarrido(esquina, 0, Acepta)

\* _crear_enemigos from the i-th enemy on.  On the grids explored the scan
\* covers every cell, so that the random cell drawn when it finds none
\* finds none either and the enemy is not created.  The speed, which the
\* difficulty sets, is taken as one move a second.
RECURSIVE crear_enemigos(_, _, _, _)
crear_enemigos(m, i, lista, posiciones_ocupadas) ==
    IF i >= CantidadEnemigosCazador THEN lista
    ELSE LET esquinas_objetivo == << <<1, 1>>, <<m.alto - 2, 1>> >>
             posicion == buscar_posicion_cercana_esquina(
                             m, esquinas_objetivo[(i % 2) + 1], posiciones_ocupadas)
         IN IF posicion = NingunaPos
            THEN crear_enemigos(m, i + 1, lista, posiciones_ocupadas)
            ELSE crear_enemigos(m, i + 1,
                                Append(lista, Enemigo(posicion[1], posicion[2], 1,
                                                      TiempoRespawnEscapa, FALSE)),
                                posiciones_ocupadas \cup {posicion})

EnemigosCazador(m) ==
    crear_enemigos(m, 0, <<>>, {InicioCazador(m)} \cup Rango(m.posiciones_salida))

GameModeCazadorCompleto(m, tiempo_limite) ==
    [controlador |-> GameModeCazadorC,
     tiempo_limite |-> tiempo_limite,
     jugador |-> Jugador(InicioCazador(m)[1], InicioCazador(m)[2], EnergiaInicialJugador),
     tiempo_juego |-> 0,
     puntos |-> PuntosBaseCazador,
     juego_terminado |-> FALSE,
     victoria |-> FALSE,
     enemigos_capturados |-> 0,
     enemigos_escapados |-> 0,
     movimientos |-> 0,
     ultima_captura_tiempo |-> 0,
     combo_actual |-> 0,
     puntos_ganados_ultima_captura |-> 0,
     tiempo_mostrar_puntos |-> 0]

\* GameModeCazador._terminar_juego: the time is in half seconds, the energy
\* in units of 1/200 point, the multiplier that of Dificultad.FACIL.
cazador_terminar_juego(j) ==
    LET con_tiempo == j.puntos + Max(0, j.tiempo_limite - j.tiempo_juego)
        con_energia == con_tiempo + (3 * j.jugador.energia_actual) \div (20 * ENERGIA_CAMINAR)
        con_velocidad ==
            IF j.enemigos_capturados = 3 /\ 2 * j.tiempo_juego < j.tiempo_limite
            THEN con_energia + 50
            ELSE IF j.enemigos_capturados = 3 /\ 4 * j.tiempo_juego < 3 * j.tiempo_limite
            THEN con_energia + 25
            ELSE con_energia
    IN [j EXCEPT !.juego_terminado = TRUE,
                 !.puntos = Max(PuntosMinimos, (11 * con_velocidad) \div 10)]

\* GameModeCazador._enemigo_escapo, the game's part; the enemy is killed.
enemigo_escapo(j) ==
    [j EXCEPT !.puntos = Max(0, @ - PuntosPerdidosPorEscape),
              !.enemigos_escapados = @ + 1,
              !.victoria = FALSE, !.juego_terminado = TRUE]

\* A capture that is not counted.
capturar_enemigo_sin_contar(j) ==
    [j EXCEPT !.puntos = @ + PuntosPerdidosPorEscape * 2,
              !.ultima_captura_tiempo = j.tiempo_juego]

\* GameModeCazador._capturar_enemigo, the game's part; the enemy is killed.
capturar_enemigo(j) ==
    LET rapido == /\ j.tiempo_juego - j.ultima_captura_tiempo <= TiempoCombo
                  /\ j.ultima_captura_tiempo > 0
        combo == IF rapido THEN j.combo_actual + 1 ELSE 1
        puntos_ganados == PuntosPerdidosPorEscape * 2
                          + (IF rapido THEN Min(MaxBonoCombo, combo * 5) ELSE 0)
    IN [j EXCEPT !.combo_actual = combo,
                 !.puntos = @ + puntos_ganados,
                 !.enemigos_capturados = @ + 1,
                 !.ultima_captura_tiempo = j.tiempo_juego,
                 !.puntos_ganados_ultima_captura = puntos_ganados,
                 !.tiempo_mostrar_puntos = TiempoMostrarPuntos]

ha_llegado_a_salida(e, m) == esta_vivo(e) /\ es_posicion_salida(m, e.fila, e.columna)

\* The enemies' loop with the capture tested before the escape.
RECURSIVE BucleEnemigos_captura_primero(_, _, _, _, _)
BucleEnemigos_captura_primero(j, lista, i, m, delta_tiempo) ==
    IF i > Len(lista) THEN { [juego |-> j, enemigos |-> lista] }
    ELSE IF ~esta_vivo(lista[i])
    THEN BucleEnemigos_captura_primero(j, lista, i + 1, m, delta_tiempo)
    ELSE UNION {
           IF obtener_posicion(e1) = obtener_posicion(j.jugador)
           THEN BucleEnemigos_captura_primero(capturar_enemigo(j),
                                              [lista EXCEPT ![i] = matar(e1)],
                                              i + 1, m, delta_tiempo)
           ELSE IF ha_llegado_a_salida(e1, m)
           THEN { [juego |-> enemigo_escapo(j), enemigos |-> [lista EXCEPT ![i] = matar(e1)]] }
           ELSE BucleEnemigos_captura_primero(j, [lista EXCEPT ![i] = e1], i + 1, m,
                                              delta_tiempo) :
           e1 \in actualizar(lista[i], m, obtener_posicion(j.jugador), delta_tiempo,
                             Cazador, NingunaPos) }

\* for enemigo in self.enemigos of GameModeCazador.actualizar, from the i-th
\* enemy on: a live enemy is updated, then it escapes, which ends the call,
\* or is captured, or neither.
RECURSIVE BucleEnemigos(_, _, _, _, _)
BucleEnemigos(j, lista, i, m, delta_tiempo) ==
    IF i > Len(lista) THEN { [juego |-> j, enemigos |-> lista] }
    ELSE IF ~esta_vivo(lista[i]) THEN BucleEnemigos(j, lista, i + 1, m, delta_tiempo)
    ELSE UNION {
           IF ha_llegado_a_salida(e1, m)
           THEN { [juego |-> enemigo_escapo(j), enemigos |-> [lista EXCEPT ![i] = matar(e1)]] }
           ELSE IF obtener_posicion(e1) = obtener_posicion(j.jugador)
           THEN BucleEnemigos(capturar_enemigo(j), [lista EXCEPT ![i] = matar(e1)],
                              i + 1, m, delta_tiempo)
           ELSE BucleEnemigos(j, [lista EXCEPT ![i] = e1], i + 1, m, delta_tiempo) :
           e1 \in actualizar(lista[i], m, obtener_posicion(j.jugador), delta_tiempo,
                             Cazador, NingunaPos) }

\* GameModeCazador.actualizar: the objects the call may leave.
cazador_actualizar(j, lista, m, delta_tiempo) ==
    IF j.juego_terminado THEN { [juego |-> j, enemigos |-> lista] }
    ELSE LET j1 == [j EXCEPT
                      !.tiempo_juego = @ + delta_tiempo,
                      !.jugador = actualizar_energia(@, delta_tiempo, TasaRecuperacion)]
         IN IF j1.tiempo_juego >= j1.tiempo_limite
            THEN { [juego |-> cazador_terminar_juego(j1), enemigos |-> lista] }
            ELSE IF \A i \in 1 .. Len(lista) : ~esta_vivo(lista[i])
            THEN { [juego |-> cazador_terminar_juego([j1 EXCEPT !.victoria = TRUE]),
                    enemigos |-> lista] }
            ELSE BucleEnemigos([j1 EXCEPT !.tiempo_mostrar_puntos =
                                              IF @ > 0 THEN @ - delta_tiempo ELSE @],
                               lista, 1, m, delta_tiempo)

(***************************************************************************)
(* SpecModoCazador: a game of GameModeCazador on a 3x4 grid; its caller    *)
(* updates it and moves the player.                                        *)
(***************************************************************************)
MaxMovimientosCazador == 3

DeltasCazador == {1}

TiemposLimite == {4, 8}

MapaPartidaCazador ==
    Mapa(4, 3, DeFilas(<< <<Camino, Camino, Camino, Tunel>>,
                          <<Camino, Camino, Camino, Camino>>,
                          <<Camino, Camino, Camino, Liana>> >>), <<1, 1>>, << <<2, 0>> >>)

InitModoCazador ==
    /\ mapa = MapaPartidaCazador
    /\ enemigos = EnemigosCazador(mapa)
    /\ \E tiempo_limite \in TiemposLimite : juego = GameModeCazadorCompleto(mapa, tiempo_limite)
    /\ gestor = Ninguno
    /\ consulta = [op |-> "crear"]
    /\ resultado = Pendiente
    /\ gen = Ninguno /\ ene = Ninguno

CazadorActualizar ==
    /\ juego.controlador = GameModeCazadorC
    /\ \E delta_tiempo \in DeltasCazador :
         /\ juego.juego_terminado \/ juego.tiempo_juego + delta_tiempo <= juego.tiempo_limite
         /\ \E r \in cazador_actualizar(juego, enemigos, mapa, delta_tiempo) :
              juego' = r.juego /\ enemigos' = r.enemigos
         /\ consulta' = [op |-> "actualizar", delta_tiempo |-> delta_tiempo]
    /\ resultado' = Pendiente
    /\ UNCHANGED <<mapa, gen, ene, gestor>>

CazadorMoverJugador ==
    /\ juego.controlador = GameModeCazadorC
    /\ juego.juego_terminado \/ juego.movimientos < MaxMovimientosCazador
    /\ \E direccion \in DireccionesJugador, corriendo \in BOOLEAN :
         LET r == cazador_mover_jugador(juego, mapa, direccion, corriendo) IN
         /\ juego' = r.juego
         /\ resultado' = <<r.devuelve>>
         /\ consulta' = [op |-> "mover_jugador", direccion |-> direccion,
                         corriendo |-> corriendo]
    /\ UNCHANGED <<mapa, gen, ene, gestor, enemigos>>

NextModoCazador == CazadorActualizar \/ CazadorMoverJugador

SpecModoCazador == InitModoCazador /\ [][NextModoCazador]_vars

(***************************************************************************)
(* SpecModos: a game of either controller.                                 *)
(***************************************************************************)
InitModos == InitModoEscapa \/ InitModoCazador

NextModos == NextModoEscapa \/ NextModoCazador

SpecModos == InitModos /\ [][NextModos]_vars

\* C34: once juego_terminado holds, a call of actualizar, mover_jugador or
\* colocar_trampa changes nothing of the game (time, score, victory flag,
\* player, charges), of the enemies or of the traps, and mover_jugador and
\* colocar_trampa return False.
C34_FinAbsorbente ==
    [][juego.juego_terminado =>
          /\ juego' = juego /\ enemigos' = enemigos /\ gestor' = gestor
          /\ consulta'.op \in {"mover_jugador", "colocar_trampa"} => resultado' = <<FALSE>>]_vars

\* An Escape game that has ended and was then asked to place a trap.
C34_Testigo ==
    /\ juego.controlador = GameModeEscapaC /\ juego.juego_terminado
    /\ consulta.op = "colocar_trampa" /\ resultado = <<FALSE>>

\* A Hunter game that has ended and was then asked to move the player.
C34_TestigoCazador ==
    /\ juego.controlador = GameModeCazadorC /\ juego.juego_terminado
    /\ consulta.op = "mover_jugador" /\ resultado = <<FALSE>>

(***************************************************************************)
(* C35: an enemy on an exit ends the Hunter game.  The enemies of a Hunter *)
(* game are ACTIVO until they die, so an update does one thing with each.  *)
(***************************************************************************)
\* A step that is an update of a running Hunter game reaching the enemies'
\* loop: the time limit is not reached and some enemy is alive.
ActualizaCazador ==
    /\ juego.controlador = GameModeCazadorC /\ ~juego.juego_terminado
    /\ consulta'.op = "actualizar"
    /\ juego.tiempo_juego + consulta'.delta_tiempo < juego.tiempo_limite
    /\ \E i \in 1 .. Len(enemigos) : esta_vivo(enemigos[i])

\* What enemigo.actualizar makes of the i-th enemy in this update.
TrasSuTurno(i) ==
    CHOOSE e1 \in actualizar(enemigos[i], mapa, obtener_posicion(juego.jugador),
                             consulta'.delta_tiempo, Cazador, NingunaPos) : TRUE

\* The live enemies that stand on an exit after their update.
LleganASalida ==
    { i \in 1 .. Len(enemigos) :
        esta_vivo(enemigos[i]) /\ ha_llegado_a_salida(TrasSuTurno(i), mapa) }

\* The live enemies before the k-th that the update finds on the player.
CapturadosAntesDe(k) ==
    { i \in 1 .. k - 1 :
        /\ esta_vivo(enemigos[i])
        /\ obtener_posicion(TrasSuTurno(i)) = obtener_posicion(juego.jugador) }

\* C35: when, in an update of GameModeCazador, a live enemy stands on an
\* exit after its own update, the game ends in that update as a loss:
\* juego_terminado, victoria false, enemigos_escapados one more, the score
\* lowered by puntos_perdidos_por_escape but not below 0; the enemies after
\* it in the list are not updated; it counts as an escape and not as a
\* capture also when the player stands on that exit.
C35_EscapeTerminaElJuego ==
    [][(ActualizaCazador /\ LleganASalida # {}) =>
          LET k == CHOOSE i \in LleganASalida : \A n \in LleganASalida : i <= n IN
          /\ juego'.juego_terminado /\ ~juego'.victoria
          /\ juego'.enemigos_escapados = juego.enemigos_escapados + 1
          /\ juego'.enemigos_capturados
               = juego.enemigos_capturados + Cardinality(CapturadosAntesDe(k))
          /\ CapturadosAntesDe(k) = {} =>
                juego'.puntos = Max(0, juego.puntos - PuntosPerdidosPorEscape)
          /\ enemigos'[k].estado = MUERTO
          /\ \A i \in k + 1 .. Len(enemigos) : enemigos'[i] = enemigos[i]]_vars

\* An enemy has escaped through the exit the player stands on while another
\* enemy, later in the list, is alive.
C35_Testigo ==
    /\ juego.controlador = GameModeCazadorC /\ consulta.op = "actualizar"
    /\ juego.juego_terminado /\ ~juego.victoria /\ juego.enemigos_escapados = 1
    /\ JugadorEnSalida(juego)
    /\ \E k \in 1 .. Len(enemigos) :
          /\ enemigos[k].estado = MUERTO
          /\ obtener_posicion(enemigos[k]) = obtener_posicion(juego.jugador)
          /\ \E i \in k + 1 .. Len(enemigos) : esta_vivo(enemigos[i])

(***************************************************************************)
(* C36: the evasive choice of the Hunter enemies.                          *)
(***************************************************************************)

\* An update in Hunter mode finds the enemy ACTIVO on pos with its time
\* between moves used up, the player within Manhattan distance 3 and a path
\* of two cells or more to an exit.
EvadeConducta(pos, jp) ==
    /\ TocaConducta(Cazador)
    /\ Manhattan(jp, pos) <= DistanciaEvasion
    /\ LET camino == CaminoMasCorto(mapa, pos, mapa.posiciones_salida, 1, NoCamino)
       IN camino # NoCamino /\ Len(camino) >= 2

EnCasillaPasable(modo) ==
    /\ es_posicion_valida(mapa, ene.fila, ene.columna)
    /\ es_transitable_por_enemigo(mapa, ene.fila, ene.columna, modo)

\* C37: an enemy created on a cell it may enter under the mode of the game
\* stands, whenever it is alive, on a cell of the grid it may enter under
\* that mode, after any sequence of updates and kills, with or without a
\* spawn.
C37_VivoEnCasillaPasable == esta_vivo(ene) => EnCasillaPasable(consulta.modo)

\* What the code keeps: in Escape mode the live enemy is on a cell it may
\* enter, and in Hunter mode on a cell it may enter under one of the two
\* modes.
C37_VivoEnCasillaPasableEscapa ==
    esta_vivo(ene) => EnCasillaPasable(consulta.modo) \/ EnCasillaPasable(Escapa)

\* In Hunter mode the enemy is alive on a Liana after an update.
C37_VivoSobreLiana ==
    /\ consulta.op = "actualizar" /\ consulta.modo = Cazador
    /\ esta_vivo(ene) /\ mapa.casillas[ene.fila][ene.columna] = Liana

(***************************************************************************)
(* C38: the update after the last capture.                                 *)
(***************************************************************************)

\* A running Hunter game whose enemies have all been captured.
TodosCapturados ==
    /\ juego.controlador = GameModeCazadorC /\ ~juego.juego_terminado
    /\ juego.enemigos_capturados = Len(enemigos)
    /\ \A i \in 1 .. Len(enemigos) : ~esta_vivo(enemigos[i])

\* C38: once the player has captured every enemy of a Hunter game, the next
\* update ends the game with victoria true, whatever the game time is at
\* that update.
C38_VictoriaTrasCapturarTodos ==
    [][(TodosCapturados /\ consulta'.op = "actualizar")
          => juego'.juego_terminado /\ juego'.victoria]_vars

\* What the code does: the next update ends the game, with victoria true
\* when the game time stays below the limit and false when it reaches it.
C38_VictoriaSiQuedaTiempo ==
    [][(TodosCapturados /\ consulta'.op = "actualizar")
          => /\ juego'.juego_terminado
             /\ juego'.victoria
                  <=> juego.tiempo_juego + consulta'.delta_tiempo < juego.tiempo_limite]_vars

\* A Hunter game lost with its three enemies captured and none escaped.
C38_DerrotaConTodosCapturados ==
    /\ juego.controlador = GameModeCazadorC
    /\ juego.juego_terminado /\ ~juego.victoria
    /\ juego.enemigos_capturados = CantidadEnemigosCazador /\ juego.enemigos_escapados = 0
    /\ juego.tiempo_juego >= juego.tiempo_limite

\* A Hunter game won with its three enemies captured.
C38_VictoriaConTodosCapturados ==
    /\ juego.controlador = GameModeCazadorC
    /\ juego.juego_terminado /\ juego.victoria
    /\ juego.enemigos_capturados = CantidadEnemigosCazador

(***************************************************************************)
(* C39: the counters and the flags of the two controllers.                 *)
(***************************************************************************)

Vivos == { i \in 1 .. Len(enemigos) : esta_vivo(enemigos[i]) }

\* victoria only in a finished game; in a Hunter game every enemy is
\* captured, escaped or alive, and a victory has no escape and every enemy
\* captured.
FlagsYContadores ==
    /\ juego.victoria => juego.juego_terminado
    /\ juego.controlador = GameModeCazadorC =>
         /\ juego.enemigos_capturados + juego.enemigos_escapados + Cardinality(Vivos)
              = Len(enemigos)
         /\ juego.victoria =>
              /\ juego.enemigos_escapados = 0
              /\ juego.enemigos_capturados = Len(enemigos)

\* C39: in both controllers victoria implies juego_terminado in every
\* reachable state; in GameModeCazador, besides, an enemy that is no longer
\* alive (captured or escaped) never becomes alive again, the captured, the
\* escaped and the live enemies add up to the enemies created, and victoria
\* holds only with no escape and every enemy captured.
C39_FlagsYContadores ==
    /\ FlagsYContadores
    /\ [][/\ FlagsYContadores'
          /\ juego.controlador = GameModeCazadorC =>
               /\ Len(enemigos') = Len(enemigos)
               /\ \A i \in 1 .. Len(enemigos) :
                    ~esta_vivo(enemigos[i]) => ~esta_vivo(enemigos'[i])]_vars

\* A Hunter game won with three captures and no live enemy.
C39_Testigo ==
    /\ juego.controlador = GameModeCazadorC
    /\ juego.victoria /\ juego.juego_terminado
    /\ juego.enemigos_capturados = 3 /\ Vivos = {}

\* A Hunter game lost by an escape after a capture.
C39_TestigoEscape ==
    /\ juego.controlador = GameModeCazadorC
    /\ juego.juego_terminado /\ ~juego.victoria
    /\ juego.enemigos_capturados = 1 /\ juego.enemigos_escapados = 1
    /\ Cardinality(Vivos) = 1

\* An Escape game won.
C39_TestigoEscapa ==
    /\ juego.controlador = GameModeEscapaC /\ juego.victoria /\ juego.juego_terminado
====
